---- MODULE Spec2Model ----
(***************************************************************************)
(* Virtual-time consumption simulation engine (meliq99/BackendThesis).     *)
(*                                                                         *)
(* The store (Simulation, ElectricMeter, DeviceSimulation,                 *)
(* ConsumptionAlgorithm rows), the request handlers that write it, the     *)
(* live publish loop and the batch generator are modelled as one state     *)
(* machine.  Row ids are positions in the table (1..Len); 0 stands for     *)
(* "no row".  Watts are integers; time_speed is an integer count of        *)
(* 1/SpeedDen (so SpeedDen stands for 1.0).                                *)
(***************************************************************************)
EXTENDS Integers, Sequences, FiniteSets, TLC

VARIABLES
    simulations,    \* Simulation table
    meters,         \* ElectricMeter table
    devices,        \* DeviceSimulation table
    algorithms,     \* ConsumptionAlgorithm table (a deleted row keeps its slot)
    statuses,       \* CurrentStatus table, by simulation id
    resp,           \* what the last handler (or loop tick) returned / raised
    now,            \* wall clock, whole seconds
    publish_task,   \* the live loop task: "None", "ready", "sleep", "cancelled", "dead"
    mqtt_connected, \* the sink's connection state
    sink,           \* the last message handed to the sink
    session_cache,  \* rows held by the loop's session (identity map)
    batch           \* the generate_simulation_data call in progress, if any

storeVars == <<simulations, meters, devices, algorithms, statuses>>
liveVars == <<now, publish_task, mqtt_connected, sink, session_cache>>
vars == <<simulations, meters, devices, algorithms, statuses, resp,
          now, publish_task, mqtt_connected, sink, session_cache, batch>>

----------------------------------------------------------------------------
(* Bounds of the model *)

MaxSimulations == 3
MaxNow == 2
MaxDevices == 2
MaxTime == 2

(* time_speed is kept as a count of 1/SpeedDen *)
SpeedDen == 2

----------------------------------------------------------------------------
(* Values *)

None == -1

SupportedUnits == {"W", "kW", "kWh/day", "kWh/month", "kWh/year"}

RECURSIVE SeqSum(_)
SeqSum(s) == IF s = <<>> THEN 0 ELSE Head(s) + SeqSum(Tail(s))

----------------------------------------------------------------------------
(* Python values and exceptions *)

(* A value a script can hand back: a finite number (kind "num", v watts),  *)
(* float('nan'), a string, or an exception raised instead of a value       *)
(* (kind "raise", exc the class).                                          *)
Num(n) == [kind |-> "num", v |-> n, exc |-> ""]
NaN == [kind |-> "nan", v |-> 0, exc |-> ""]
Str == [kind |-> "str", v |-> 0, exc |-> ""]
Raise(e) == [kind |-> "raise", v |-> 0, exc |-> e]

(* classes below Exception; CancelledError and SystemExit are not *)
ExceptionClasses ==
    {"AttributeError", "TypeError", "ValueError", "ConnectionError",
     "ZeroDivisionError", "SyntaxError", "KeyError"}

(* a + b as Python evaluates it on these values *)
PyAdd(a, b) ==
    IF a.kind = "raise" THEN a
    ELSE IF b.kind = "raise" THEN b
    ELSE IF a.kind = "str" \/ b.kind = "str" THEN Raise("TypeError")
    ELSE IF a.kind = "nan" \/ b.kind = "nan" THEN NaN
    ELSE Num(a.v + b.v)

(* a % b with Python's sign rule (the result takes the sign of b) *)
PyMod(a, b) ==
    IF b > 0 THEN a % b ELSE -((-a) % (-b))

(* a conversion that rounds down instead of towards zero *)
Trunc_rounds_down(n, d) == n \div d

(* int(n / d): truncation towards zero *)
Trunc(n, d) ==
    IF n >= 0 THEN n \div d ELSE -((-n) \div d)

----------------------------------------------------------------------------
(* Unit converter *)

HOURS_PER_DAY == 24
DAYS_PER_MONTH == 30
DAYS_PER_YEAR == 365
HOURS_PER_MONTH == DAYS_PER_MONTH * HOURS_PER_DAY
HOURS_PER_YEAR == DAYS_PER_YEAR * HOURS_PER_DAY
WATTS_PER_KILOWATT == 1000
SECONDS_PER_MINUTE == 60
SECONDS_PER_HOUR == 3600
SECONDS_PER_DAY == 86400

(* A converted value is the fraction num/den (kind "num"), NaN, or the     *)
(* ValueError for an unsupported unit.                                     *)
Frac(n, d) == [kind |-> "num", num |-> n, den |-> d, exc |-> ""]

watts_to_unit(watts, target_unit) ==
    IF target_unit \notin SupportedUnits
    THEN [kind |-> "raise", num |-> 0, den |-> 1, exc |-> "ValueError"]
    ELSE IF watts.kind = "nan"
    THEN [kind |-> "nan", num |-> 0, den |-> 1, exc |-> ""]
    ELSE CASE target_unit = "W" -> Frac(watts.v, 1)
           [] target_unit = "kW" -> Frac(watts.v, WATTS_PER_KILOWATT)
           [] target_unit = "kWh/day" ->
                Frac(watts.v * HOURS_PER_DAY, WATTS_PER_KILOWATT)
           [] target_unit = "kWh/month" ->
                Frac(watts.v * HOURS_PER_MONTH, WATTS_PER_KILOWATT)
           [] target_unit = "kWh/year" ->
                Frac(watts.v * HOURS_PER_YEAR, WATTS_PER_KILOWATT)

get_time_multiplier(time_unit) ==
    CASE time_unit = "seconds" -> 1
      [] time_unit = "minutes" -> SECONDS_PER_MINUTE
      [] time_unit = "hours" -> SECONDS_PER_HOUR
      [] time_unit = "days" -> SECONDS_PER_DAY
      [] OTHER -> 1

----------------------------------------------------------------------------
(* Algorithm scripts *)

(* What the validator and the executor can observe of a script text:       *)
(*   parses    ast.parse accepts it                                        *)
(*   compiles  exec() of the text succeeds (a duplicate argument name is   *)
(*             found only here, not by ast.parse)                          *)
(*   args      the parameter names of its top-level simulate, <<>> when    *)
(*             it defines none (defines = FALSE); "*args" is a parameter   *)
(*             written with a star                                         *)
(*   body      what simulate computes                                      *)
RequiredArgs ==
    <<"current_time", "base_consumption", "peak_consumption",
      "cycle_duration", "on_duration", "extra_params">>

(* node.args.args of the simulate definition: the parameters before any *  *)
positional_args(args) == SelectSeq(args, LAMBDA a : a # "*args")

Script(name, parses, compiles, defines, args, body) ==
    [name |-> name, parses |-> parses, compiles |-> compiles,
     defines |-> defines, args |-> args, body |-> body]

cyclic_script ==
    Script("cyclic_script", TRUE, TRUE, TRUE, RequiredArgs, "cyclic")
active_ligthtbulb_script ==
    Script("active_ligthtbulb_script", TRUE, TRUE, TRUE,
           <<"current_time", "base_consumption", "_", "__", "___", "extra_params">>,
           "active")
tv_script ==
    Script("tv_script", TRUE, TRUE, TRUE,
           <<"current_time", "base_consumption", "peak_consumption", "__", "___",
             "extra_params">>, "tv")
fan_script ==
    Script("fan_script", TRUE, TRUE, TRUE,
           <<"current_time", "base_consumption", "peak_consumption", "_", "__",
             "extra_params">>, "fan")
coffee_script ==
    Script("coffee_script", TRUE, TRUE, TRUE,
           <<"current_time", "base_consumption", "peak_consumption", "_", "__",
             "extra_params">>, "coffee")
phone_script ==
    Script("phone_script", TRUE, FALSE, TRUE,
           <<"current_time", "base_consumption", "peak_consumption", "_", "_",
             "extra_params">>, "phone")
wifi_script ==
    Script("wifi_script", TRUE, FALSE, TRUE,
           <<"current_time", "base_consumption", "_", "_", "_", "extra_params">>,
           "wifi")

(* the rows check_initial_config adds, in the order it adds them *)
DefaultAlgorithms ==
    <<cyclic_script, active_ligthtbulb_script, tv_script, fan_script,
      coffee_script, phone_script, wifi_script>>

(* dict.get(key, default) *)
Get(extra_params, key, default) ==
    IF key \in DOMAIN extra_params THEN extra_params[key] ELSE default

(* a cycle whose "on" part lasts one position longer *)
cyclic_simulate_on_inclusive(current_time, base_consumption, peak_consumption, cycle_duration, on_duration, extra_params) ==
    LET base_interval == Get(extra_params, "base_interval", 2)
        factor == Get(extra_params, "factor", 1)
        actual_cycle_duration == cycle_duration * base_interval
        actual_on_duration == on_duration * base_interval
    IN  IF actual_cycle_duration = 0 THEN Raise("ZeroDivisionError")
        ELSE IF PyMod(current_time, actual_cycle_duration) <= actual_on_duration
             THEN Num(peak_consumption * factor)
             ELSE Num(base_consumption * factor)

(* simulate(...) of cyclic_script *)
cyclic_simulate(current_time, base_consumption, peak_consumption, cycle_duration, on_duration, extra_params) ==
    LET base_interval == Get(extra_params, "base_interval", 2)
        factor == Get(extra_params, "factor", 1)
        actual_cycle_duration == cycle_duration * base_interval
        actual_on_duration == on_duration * base_interval
    IN  IF actual_cycle_duration = 0 THEN Raise("ZeroDivisionError")
        ELSE IF PyMod(current_time, actual_cycle_duration) < actual_on_duration
             THEN Num(peak_consumption * factor)
             ELSE Num(base_consumption * factor)

(* simulate(...) of active_ligthtbulb_script (schedule defaults to         *)
(* [(0, 3600)], standby is 10)                                             *)
active_simulate(current_time, base_consumption, extra_params) ==
    LET day_time == PyMod(current_time, SECONDS_PER_DAY)
    IN  IF 0 <= day_time /\ day_time < SECONDS_PER_HOUR
        THEN Num(base_consumption) ELSE Num(10)

(* The body of simulate.  Besides the default scripts, bodies a client can *)
(* submit: "sum" returns base_consumption + peak_consumption; "nan_live",  *)
(* "str_live" and "raise_live" return base_consumption when extra_params   *)
(* is empty (as in the validator's test call) and float('nan'), a string,  *)
(* or raise otherwise; "nan", "str" and "raise" do so always; "clock"      *)
(* imports time inside simulate and returns base_consumption plus the      *)
(* seconds time.time() gives.                                              *)
Simulate(body, current_time, base_consumption, peak_consumption, cycle_duration, on_duration, extra_params) ==
    CASE body = "cyclic" ->
            cyclic_simulate(current_time, base_consumption, peak_consumption,
                            cycle_duration, on_duration, extra_params)
      [] body = "active" ->
            active_simulate(current_time, base_consumption, extra_params)
      [] body = "sum" -> Num(base_consumption + peak_consumption)
      [] body = "nan" -> NaN
      [] body = "str" -> Str
      [] body = "raise" -> Raise("ZeroDivisionError")
      [] body = "nan_live" ->
            IF DOMAIN extra_params = {} THEN Num(base_consumption) ELSE NaN
      [] body = "str_live" ->
            IF DOMAIN extra_params = {} THEN Num(base_consumption) ELSE Str
      [] body = "raise_live" ->
            IF DOMAIN extra_params = {} THEN Num(base_consumption)
            ELSE Raise("ZeroDivisionError")
      [] body = "clock" -> Num(base_consumption + now)

(* execute_custom_simulation: exec the text, look simulate up, call it     *)
(* with six positional arguments.                                          *)
execute_custom_simulation(custom_script, current_time, base_consumption, peak_consumption, cycle_duration, on_duration, extra_params) ==
    IF ~custom_script.parses \/ ~custom_script.compiles THEN Raise("SyntaxError")
    ELSE IF ~custom_script.defines THEN Raise("ValueError")
    ELSE IF /\ Len(positional_args(custom_script.args)) # Len(RequiredArgs)
            /\ ~(/\ Len(positional_args(custom_script.args)) < Len(RequiredArgs)
                 /\ \E i \in DOMAIN custom_script.args : custom_script.args[i] = "*args")
         THEN Raise("TypeError")
    ELSE Simulate(custom_script.body, current_time, base_consumption,
                  peak_consumption, cycle_duration, on_duration, extra_params)

----------------------------------------------------------------------------
(* Store queries *)

ActiveIds(sims) == {i \in 1..Len(sims) : sims[i].is_active}

Min(S) == CHOOSE x \in S : \A y \in S : x <= y

(* select(Simulation).where(is_active == True).first(): 0 when there is none *)
get_first_active_simulation(sims) ==
    IF ActiveIds(sims) = {} THEN 0 ELSE Min(ActiveIds(sims))

MeterIdsOf(mts, simulation_id) ==
    {m \in 1..Len(mts) : mts[m].simulation_id = simulation_id}

(* select(ElectricMeter).where(simulation_id == ...).first(): 0 when none *)
get_electric_meter(mts, simulation_id) ==
    IF MeterIdsOf(mts, simulation_id) = {} THEN 0
    ELSE Min(MeterIdsOf(mts, simulation_id))

(* select(DeviceSimulation).where(electric_meter_id == ...).all(), as ids *)
get_device_simulations(devs, electric_meter_id) ==
    SelectSeq([i \in 1..Len(devs) |-> i],
              LAMBDA i : devs[i].electric_meter_id = electric_meter_id)

(* select(ConsumptionAlgorithm).where(id == ...).first(): 0 when none *)
get_consumption_algorithm_by_id(algs, algorithm_id) ==
    IF algorithm_id \in 1..Len(algs) /\ ~algs[algorithm_id].deleted
    THEN algorithm_id ELSE 0

----------------------------------------------------------------------------
(* Messages handed to the sink *)

NoMessage == [subject |-> "none"]
StatusMessage(value) == [subject |-> "status", value |-> value]
DataMessage(data) == [subject |-> "consumption", data |-> data]

----------------------------------------------------------------------------
(* The batch call in progress *)

IdleBatch == [pc |-> "idle"]

----------------------------------------------------------------------------
(* Startup seeding *)

default_simulation ==
    [is_active |-> TRUE, output_unit |-> "W", time_unit |-> "seconds",
     time_speed |-> SpeedDen, simulation_start_time |-> None]

----------------------------------------------------------------------------
(* create_simulation_service *)

(* a deactivation that forgets to clear the flag *)
desactive_simulation_keeps_flag(sims, id) == sims

desactive_simulation(sims, id) ==
    IF id \in 1..Len(sims) THEN [sims EXCEPT ![id].is_active = FALSE] ELSE sims

(* The new row and its meter are committed first; only then is the         *)
(* previously active row looked at.  With no active row,                   *)
(* current_simulation is None and current_simulation.is_active raises      *)
(* after both commits.                                                     *)
create_simulation_service(req) ==
    LET current_simulation == get_first_active_simulation(simulations)
        new_id == Len(simulations) + 1
        created == Append(simulations, req)
        meter_id == Len(meters) + 1
    IN  /\ meters' = Append(meters, [simulation_id |-> new_id, base_consumption |-> 0])
        /\ IF current_simulation = 0
           THEN /\ simulations' = created
                /\ resp' = [op |-> "create_simulation", status |-> "AttributeError",
                            is_active |-> req.is_active, previous |-> 0,
                            id |-> new_id, electric_meter_id |-> meter_id]
           ELSE /\ simulations' = desactive_simulation(created, current_simulation)
                /\ resp' = [op |-> "create_simulation", status |-> "ok",
                            is_active |-> req.is_active, previous |-> current_simulation,
                            id |-> new_id, electric_meter_id |-> meter_id]

SimRequests ==
    [is_active : BOOLEAN, output_unit : {"W", "kW"}, time_unit : {"seconds"},
     time_speed : {SpeedDen, 2 * SpeedDen}, simulation_start_time : {None}]

(* POST /simulations/ with a body out of requests *)
CreateSimulationFrom(requests) ==
    /\ batch.pc = "idle"
    /\ Len(simulations) < MaxSimulations
    /\ \E req \in requests : create_simulation_service(req)
    /\ UNCHANGED <<devices, algorithms, statuses>>
    /\ UNCHANGED <<liveVars, batch>>

CreateSimulation == CreateSimulationFrom(SimRequests)

----------------------------------------------------------------------------
(* update_simulation_service *)

(* A SimulationUpdate body: the fields sent with a value, and the fields   *)
(* sent as null.  dict(exclude_none=True) keeps only the former.           *)
exclude_none(body) == body.values

update_simulation(sims, id, update_data) ==
    [sims EXCEPT ![id] =
        [f \in DOMAIN sims[id] |->
            IF f \in DOMAIN update_data THEN update_data[f] ELSE sims[id][f]]]

update_simulation_service(simulation_id, body) ==
    LET update_data == exclude_none(body)
    IN  IF simulation_id \notin 1..Len(simulations)
        THEN /\ resp' = [op |-> "update_simulation", status |-> "not found",
                         id |-> simulation_id]
             /\ UNCHANGED simulations
        ELSE /\ simulations' =
                   IF DOMAIN update_data = {} THEN simulations
                   ELSE update_simulation(simulations, simulation_id, update_data)
             /\ resp' = [op |-> "update_simulation", status |-> "ok",
                         id |-> simulation_id]

UpdateBodies ==
    { [values |-> [output_unit |-> "kW"], nulls |-> {}],
      [values |-> [output_unit |-> "W"], nulls |-> {}],
      [values |-> [time_unit |-> "minutes", time_speed |-> 2 * SpeedDen], nulls |-> {}],
      [values |-> [time_unit |-> "seconds", time_speed |-> SpeedDen],
       nulls |-> {"simulation_start_time"}],
      [values |-> [simulation_start_time |-> 0], nulls |-> {}],
      [values |-> << >>, nulls |-> {"output_unit"}] }

(* PUT /simulations/{simulation_id} with a body out of bodies *)
UpdateSimulationFrom(bodies) ==
    /\ batch.pc = "idle"
    /\ \E id \in 1..MaxSimulations, body \in bodies :
          update_simulation_service(id, body)
    /\ UNCHANGED <<meters, devices, algorithms, statuses>>
    /\ UNCHANGED <<liveVars, batch>>

UpdateSimulation == UpdateSimulationFrom(UpdateBodies)

----------------------------------------------------------------------------
(* Specification of the simulation store *)

InitSim ==
    /\ simulations = <<default_simulation>>
    /\ meters = <<[simulation_id |-> 1, base_consumption |-> 0]>>
    /\ devices = <<>>
    /\ algorithms = <<>>
    /\ statuses = [i \in 1..MaxSimulations |-> "None"]
    /\ resp = [op |-> "startup", status |-> "ok"]
    /\ now = 0
    /\ publish_task = "None"
    /\ mqtt_connected = TRUE
    /\ sink = NoMessage
    /\ session_cache = [i \in 1..MaxSimulations |-> <<>>]
    /\ batch = IdleBatch

SpecSim ==
    /\ InitSim
    /\ [][CreateSimulation
          \/ UpdateSimulation]_vars

(* C1: starting from a store with exactly one active simulation, after any *)
(* sequence of create_simulation_service calls exactly one Simulation row  *)
(* has is_active = true.                                                   *)
C1_ExactlyOneActive == Cardinality(ActiveIds(simulations)) = 1

(* C2: a create_simulation_service call with is_active = true made while a *)
(* simulation P is active leaves P inactive, makes the new row the one     *)
(* get_first_active_simulation returns, and gives the new row a meter of   *)
(* its own.                                                                *)
C2_CreateActiveReplacesPrevious ==
    (resp.op = "create_simulation" /\ resp.is_active /\ resp.previous # 0) =>
        /\ ~simulations[resp.previous].is_active
        /\ get_first_active_simulation(simulations) = resp.id
        /\ get_electric_meter(meters, resp.id) = resp.electric_meter_id
        /\ resp.electric_meter_id # 0
        /\ get_electric_meter(meters, resp.previous) # resp.electric_meter_id

C2_Witness ==
    /\ resp.op = "create_simulation"
    /\ resp.is_active
    /\ resp.previous # 0
    /\ resp.id = Len(simulations)

----------------------------------------------------------------------------
(* Virtual clock *)

(* a clock that counts the elapsed time backwards *)
calculate_simulation_time_reversed(simulation, real_time) ==
    IF simulation.simulation_start_time # None
    THEN LET start_timestamp == simulation.simulation_start_time
             elapsed_real == start_timestamp - real_time
         IN  Trunc(start_timestamp * SpeedDen + elapsed_real * simulation.time_speed,
                   SpeedDen)
    ELSE Trunc(real_time * simulation.time_speed, SpeedDen)

(* calculate_simulation_time, with real_time the value time.time() gave *)
calculate_simulation_time(simulation, real_time) ==
    IF simulation.simulation_start_time # None
    THEN LET start_timestamp == simulation.simulation_start_time
             elapsed_real == real_time - start_timestamp
         IN  Trunc(start_timestamp * SpeedDen + elapsed_real * simulation.time_speed,
                   SpeedDen)
    ELSE Trunc(real_time * simulation.time_speed, SpeedDen)

----------------------------------------------------------------------------
(* Device evaluation of the live loop *)

(* a mapping built with the multiplier of seconds whatever the unit *)
ExtraParams_in_seconds(time_unit, time_speed) ==
    [base_interval |-> get_time_multiplier("seconds"), time_unit |-> time_unit,
     time_speed |-> time_speed, factor |-> 1]

ExtraParams(time_unit, time_speed) ==
    [base_interval |-> get_time_multiplier(time_unit), time_unit |-> time_unit,
     time_speed |-> time_speed, factor |-> 1]

(* a device loop whose except clause lets the exception through *)
live_device_consumption_reraises(algs, device_simulation, simulation_time, extra_params) ==
    IF get_consumption_algorithm_by_id(algs, device_simulation.algorithm_id) = 0
    THEN Raise("AttributeError")
    ELSE execute_custom_simulation(
             algs[device_simulation.algorithm_id].script, simulation_time,
             device_simulation.consumption_value, device_simulation.peak_consumption,
             device_simulation.cycle_duration, device_simulation.on_duration,
             extra_params)

(* One pass of the for loop of calculate_consumption.  The script lookup   *)
(* is outside the try (a missing row raises AttributeError out of the      *)
(* function); an exception of execute_custom_simulation is caught and      *)
(* the contribution set to 0; any returned value is taken as it is.        *)
live_device_consumption(algs, device_simulation, simulation_time, extra_params) ==
    IF get_consumption_algorithm_by_id(algs, device_simulation.algorithm_id) = 0
    THEN Raise("AttributeError")
    ELSE LET device_consumption ==
                 execute_custom_simulation(
                     algs[device_simulation.algorithm_id].script, simulation_time,
                     device_simulation.consumption_value,
                     device_simulation.peak_consumption,
                     device_simulation.cycle_duration,
                     device_simulation.on_duration, extra_params)
         IN  IF device_consumption.kind = "raise" /\ device_consumption.exc \in ExceptionClasses
             THEN Num(0) ELSE device_consumption

(* devices_consumption after the devices ids[1..] have been added to acc *)
RECURSIVE devices_consumption_from(_, _, _, _, _, _)
devices_consumption_from(acc, ids, devs, algs, simulation_time, extra_params) ==
    IF ids = <<>> \/ acc.kind = "raise" THEN acc
    ELSE devices_consumption_from(
             PyAdd(acc, live_device_consumption(algs, devs[Head(ids)],
                                                simulation_time, extra_params)),
             Tail(ids), devs, algs, simulation_time, extra_params)

(* an aggregate that never goes below zero *)
calculate_consumption_clamped(ids, devs, algs, current_electric_meter, simulation, real_time) ==
    LET simulation_time == calculate_simulation_time(simulation, real_time)
        extra_params == ExtraParams(simulation.time_unit, simulation.time_speed)
        devices_consumption ==
            devices_consumption_from(Num(0), ids, devs, algs, simulation_time,
                                     extra_params)
        total == PyAdd(devices_consumption, Num(current_electric_meter.base_consumption))
    IN  IF total.kind = "num" /\ total.v < 0 THEN Num(0) ELSE total

calculate_consumption(ids, devs, algs, current_electric_meter, simulation, real_time) ==
    LET simulation_time == calculate_simulation_time(simulation, real_time)
        extra_params == ExtraParams(simulation.time_unit, simulation.time_speed)
        devices_consumption ==
            devices_consumption_from(Num(0), ids, devs, algs, simulation_time,
                                     extra_params)
    IN  PyAdd(devices_consumption, Num(current_electric_meter.base_consumption))

----------------------------------------------------------------------------
(* Stores the evaluation is run against *)

(* scripts a client has created through POST /algorithms *)
UserScripts ==
    <<Script("user_sum", TRUE, TRUE, TRUE, RequiredArgs, "sum"),
      Script("user_nan_live", TRUE, TRUE, TRUE, RequiredArgs, "nan_live"),
      Script("user_str_live", TRUE, TRUE, TRUE, RequiredArgs, "str_live"),
      Script("user_raise_live", TRUE, TRUE, TRUE, RequiredArgs, "raise_live")>>

AlgorithmRow(script) == [script |-> script, deleted |-> FALSE]

SeededAlgorithms ==
    [i \in 1..(Len(DefaultAlgorithms) + Len(UserScripts)) |->
        IF i <= Len(DefaultAlgorithms) THEN AlgorithmRow(DefaultAlgorithms[i])
        ELSE AlgorithmRow(UserScripts[i - Len(DefaultAlgorithms)])]

AlgorithmIdOf(name) ==
    CHOOSE i \in 1..Len(SeededAlgorithms) : SeededAlgorithms[i].script.name = name

Device(electric_meter_id, algorithm_id, consumption_value, peak_consumption, cycle_duration, on_duration) ==
    [electric_meter_id |-> electric_meter_id, algorithm_id |-> algorithm_id,
     consumption_value |-> consumption_value, peak_consumption |-> peak_consumption,
     cycle_duration |-> cycle_duration, on_duration |-> on_duration]

(* device rows a client can have attached to meter 1: a cyclic device, a   *)
(* cyclic device with cycle_duration 0 (simulate divides by zero), devices *)
(* on the default phone script and on each client script, and a device     *)
(* whose algorithm_id resolves to no row                                   *)
DeviceChoices ==
    { Device(1, AlgorithmIdOf("cyclic_script"), 10, 20, 2, 1),
      Device(1, AlgorithmIdOf("cyclic_script"), 10, 20, 0, 1),
      Device(1, AlgorithmIdOf("phone_script"), 5, 7, 2, 1),
      Device(1, AlgorithmIdOf("user_sum"), 3, 4, 2, 1),
      Device(1, AlgorithmIdOf("user_sum"), 4, 6, 2, 1),
      Device(1, AlgorithmIdOf("user_sum"), 8, 12, 2, 1),
      Device(1, AlgorithmIdOf("user_sum"), 0 - 60, 0, 2, 1),
      Device(1, AlgorithmIdOf("user_nan_live"), 6, 8, 2, 1),
      Device(1, AlgorithmIdOf("user_str_live"), 6, 8, 2, 1),
      Device(1, AlgorithmIdOf("user_raise_live"), 6, 8, 2, 1),
      Device(1, Len(SeededAlgorithms) + 1, 6, 8, 2, 1) }

DeviceSetups ==
    UNION { [1..n -> DeviceChoices] : n \in 0..MaxDevices }

BaseLoads == {0, 50}

----------------------------------------------------------------------------
(* Specification of calculate_consumption on its own *)

InitCalc ==
    /\ simulations = <<default_simulation>>
    /\ \E b \in BaseLoads : meters = <<[simulation_id |-> 1, base_consumption |-> b]>>
    /\ devices \in DeviceSetups
    /\ algorithms = SeededAlgorithms
    /\ statuses = [i \in 1..MaxSimulations |-> "None"]
    /\ resp = [op |-> "startup", status |-> "ok"]
    /\ now = 0
    /\ publish_task = "None"
    /\ mqtt_connected = TRUE
    /\ sink = NoMessage
    /\ session_cache = [i \in 1..MaxSimulations |-> <<>>]
    /\ batch = IdleBatch

(* the wall clock moves on *)
Advance ==
    /\ now < MaxNow
    /\ now' = now + 1
    /\ UNCHANGED <<storeVars, resp, publish_task, mqtt_connected, sink, session_cache, batch>>

(* calculate_consumption(devices of meter 1, meter 1, session);            *)
(* extra_params holds the mapping the simulate calls were given            *)
Calculate ==
    /\ resp' = [op |-> "calculate_consumption", at |-> now,
                extra_params |->
                    IF get_device_simulations(devices, 1) = << >> THEN << >>
                    ELSE <<ExtraParams(simulations[1].time_unit,
                                       simulations[1].time_speed)>>,
                result |-> calculate_consumption(
                               get_device_simulations(devices, 1), devices,
                               algorithms, meters[1], simulations[1], now)]
    /\ UNCHANGED <<storeVars, liveVars, batch>>

SpecCalc ==
    /\ InitCalc
    /\ [][Advance
          \/ Calculate]_vars

(* what simulate hands back for device i at the time of the last call *)
SimulateResult(i, at) ==
    execute_custom_simulation(
        algorithms[devices[i].algorithm_id].script,
        calculate_simulation_time(simulations[1], at),
        devices[i].consumption_value, devices[i].peak_consumption,
        devices[i].cycle_duration, devices[i].on_duration,
        ExtraParams(simulations[1].time_unit, simulations[1].time_speed))

AllResolved ==
    \A i \in 1..Len(devices) :
        get_consumption_algorithm_by_id(algorithms, devices[i].algorithm_id) # 0

(* sum of the results of the devices whose simulate returned a number *)
SumOfNumbers(at) ==
    SeqSum([i \in 1..Len(devices) |->
              IF SimulateResult(i, at).kind = "num" THEN SimulateResult(i, at).v ELSE 0])

(* C5: in calculate_consumption a device whose simulate call raises        *)
(* contributes 0 and the other devices are still added: with every other   *)
(* device returning a number, the result is the meter's base consumption   *)
(* plus the sum of the results of the devices that did not raise.          *)
C5_RaisingDeviceContributesZero ==
    (/\ resp.op = "calculate_consumption"
     /\ AllResolved
     /\ \A i \in 1..Len(devices) : SimulateResult(i, resp.at).kind \in {"num", "raise"})
    => resp.result = Num(meters[1].base_consumption + SumOfNumbers(resp.at))

C5_Witness ==
    /\ resp.op = "calculate_consumption"
    /\ AllResolved
    /\ Len(devices) = 2
    /\ SimulateResult(1, resp.at).kind = "raise"
    /\ SimulateResult(2, resp.at).kind = "num"
    /\ SimulateResult(2, resp.at).v > 0
    /\ resp.result = Num(meters[1].base_consumption + SimulateResult(2, resp.at).v)

(* C7: a device whose simulate returns a non-numeric value or NaN counts   *)
(* as 0 watts and the other devices are still summed, so the total is      *)
(* always the base consumption plus the sum of the numeric results.        *)
C7_NonNumericContributesZero ==
    (resp.op = "calculate_consumption" /\ AllResolved)
    => resp.result = Num(meters[1].base_consumption + SumOfNumbers(resp.at))

(* C16: when every device returns a number, calculate_consumption gives    *)
(* the meter's base consumption plus the sum of what the devices returned, *)
(* negative values included, and the conversion scales that value without  *)
(* rounding: 50 W with devices at 10 W and 20 W is 80 W, 1.92 kWh/day.     *)
C16_AggregateIsBasePlusDevices ==
    ( /\ resp.op = "calculate_consumption"
      /\ AllResolved
      /\ \A i \in 1..Len(devices) : SimulateResult(i, resp.at).kind = "num" )
    => LET contributions == [i \in 1..Len(devices) |-> SimulateResult(i, resp.at).v]
           per_day == watts_to_unit(resp.result, "kWh/day")
       IN  /\ resp.result.kind = "num"
           /\ resp.result.v = meters[1].base_consumption + SeqSum(contributions)
           /\ per_day.kind = "num"
           /\ per_day.num * WATTS_PER_KILOWATT = resp.result.v * HOURS_PER_DAY * per_day.den
           /\ (meters[1].base_consumption = 50 /\ contributions = <<10, 20>>)
                  => (resp.result.v = 80 /\ per_day.num * 100 = 192 * per_day.den)

C16_Witness ==
    /\ resp.op = "calculate_consumption"
    /\ meters[1].base_consumption = 50
    /\ Len(devices) = 2
    /\ SimulateResult(1, resp.at) = Num(10)
    /\ SimulateResult(2, resp.at) = Num(20)
    /\ resp.result = Num(80)
    /\ watts_to_unit(resp.result, "kWh/day") = Frac(1920, 1000)

----------------------------------------------------------------------------
(* The live publish loop *)

(* a session that keeps serving the rows it has already loaded *)
expire_nothing(cache) == cache

(* session.expire_all(): every row the session holds is marked stale *)
expire_all(cache) == [i \in DOMAIN cache |-> <<>>]

(* get_current_simulation: expire the session, then query the active row.  *)
(* A row the session still holds unexpired is served from the session,     *)
(* any other row is loaded from the table.  id = 0 stands for None.        *)
get_current_simulation(cache, sims) ==
    LET fresh == expire_all(cache)
        id == get_first_active_simulation(sims)
    IN  IF id = 0 THEN [id |-> 0, row |-> <<>>]
        ELSE [id |-> id, row |-> IF fresh[id] # <<>> THEN fresh[id][1] ELSE sims[id]]

(* the rows the session holds after the queries of one tick *)
loaded_after(cache, sims) ==
    LET id == get_first_active_simulation(sims)
    IN  [i \in DOMAIN cache |->
            IF i = id THEN <<get_current_simulation(cache, sims).row>> ELSE <<>>]

Failed(exc) ==
    [status |-> "failed", exc |-> exc, data |-> NoMessage, current_time |-> None]
Published(data, current_time) ==
    [status |-> "published", exc |-> "", data |-> DataMessage(data),
     current_time |-> current_time]

(* The body of the try block of publish_messages for a tick that reads the *)
(* clock at t1 (inside calculate_consumption) and at t2 (for the           *)
(* timestamp).  current_time is the simulation time calculate_consumption  *)
(* passed to the device algorithms.                                        *)
tick_result(cache, sims, mts, devs, algs, connected, t1, t2) ==
    LET current_simulation == get_current_simulation(cache, sims)
    IN  IF current_simulation.id = 0 THEN Failed("AttributeError")
        ELSE
        LET meter_id == get_electric_meter(mts, current_simulation.id)
        IN  IF meter_id = 0 THEN Failed("AttributeError")
            ELSE
            LET consumption_watts ==
                    calculate_consumption(get_device_simulations(devs, meter_id),
                                          devs, algs, mts[meter_id],
                                          current_simulation.row, t1)
                output_unit == current_simulation.row.output_unit
                consumption_in_output_unit == watts_to_unit(consumption_watts, output_unit)
                simulation_time == calculate_simulation_time(current_simulation.row, t2)
                data == [value |-> consumption_in_output_unit, unit |-> output_unit,
                         time_unit |-> current_simulation.row.time_unit,
                         time_speed |-> current_simulation.row.time_speed,
                         simulation_id |-> current_simulation.id,
                         timestamp |-> simulation_time]
            IN  IF consumption_watts.kind = "raise" THEN Failed(consumption_watts.exc)
                ELSE IF consumption_in_output_unit.kind = "raise"
                     THEN Failed(consumption_in_output_unit.exc)
                ELSE IF ~connected THEN Failed("ConnectionError")
                ELSE Published(data,
                               calculate_simulation_time(current_simulation.row, t1))

(* an except clause that only handles ValueError *)
caught_by_loop_value_errors_only(exc) == exc = "ValueError"

(* except Exception as e: of publish_messages *)
caught_by_loop(exc) == exc \in ExceptionClasses

(* One iteration of the while loop, from its first read to the point where *)
(* it is suspended in asyncio.sleep.  Nothing in between suspends, so no   *)
(* other handler runs inside a tick.                                       *)
Tick ==
    /\ batch.pc = "idle"
    /\ publish_task = "ready"
    /\ \E t2 \in {now, IF now < MaxNow THEN now + 1 ELSE now} :
        LET r == tick_result(session_cache, simulations, meters, devices,
                             algorithms, mqtt_connected, now, t2)
        IN  /\ now' = t2
            /\ sink' = IF r.status = "published" THEN r.data ELSE sink
            /\ publish_task' =
                   IF r.status = "published" \/ caught_by_loop(r.exc)
                   THEN "sleep" ELSE "dead"
            /\ resp' = [op |-> "tick", status |-> r.status, exc |-> r.exc,
                        current_time |-> r.current_time]
    /\ session_cache' = loaded_after(session_cache, simulations)
    /\ UNCHANGED <<storeVars, mqtt_connected, batch>>

(* asyncio.sleep(interval) is over; the loop is scheduled again *)
SleepDone ==
    /\ publish_task = "sleep"
    /\ publish_task' = "ready"
    /\ UNCHANGED <<storeVars, resp, now, mqtt_connected, sink, session_cache, batch>>

(* a check that takes a task that has begun its sleep for finished *)
task_running_unless_asleep == publish_task = "ready"

(* publish_task and not publish_task.done() *)
task_running == publish_task \in {"ready", "sleep"}

(* save_status_service *)
save_status_service(simulation_id, status) ==
    statuses' = [statuses EXCEPT ![simulation_id] = status]

(* POST /publisher/{simulation_id}/start *)
StartPublisher ==
    /\ batch.pc = "idle"
    /\ \E simulation_id \in {get_first_active_simulation(simulations)} \ {0} :
        IF task_running
        THEN /\ resp' = [op |-> "start_publisher", status |-> "Publisher already running"]
             /\ UNCHANGED <<publish_task, sink, statuses, session_cache>>
        ELSE /\ publish_task' = "ready"
             /\ session_cache' = [i \in DOMAIN session_cache |-> <<>>]
             /\ IF mqtt_connected
                THEN /\ sink' = StatusMessage("started")
                     /\ save_status_service(simulation_id, "running")
                     /\ resp' = [op |-> "start_publisher", status |-> "Publisher started"]
                ELSE /\ resp' = [op |-> "start_publisher", status |-> "ConnectionError"]
                     /\ UNCHANGED <<sink, statuses>>
    /\ UNCHANGED <<simulations, meters, devices, algorithms, now, mqtt_connected, batch>>

(* a cancellation that is lost when the sleep is already over *)
task_after_cancel_unless_woken(task) == IF task = "ready" THEN "ready" ELSE "cancelled"

(* publish_task.cancel() and await publish_task: CancelledError is thrown  *)
(* into the loop where it is suspended (the sleep, outside the try block,  *)
(* also when the sleep is over and the task is scheduled) or before its    *)
(* first step; except Exception does not hold it, and the task is done     *)
task_after_cancel(task) == "cancelled"

(* POST /publisher/{simulation_id}/stop *)
StopPublisher ==
    /\ batch.pc = "idle"
    /\ \E simulation_id \in {get_first_active_simulation(simulations)} \ {0} :
        IF ~task_running
        THEN /\ resp' = [op |-> "stop_publisher", status |-> "Publisher not running"]
             /\ UNCHANGED <<publish_task, sink, statuses>>
        ELSE /\ publish_task' = task_after_cancel(publish_task)
             /\ IF mqtt_connected
                THEN /\ sink' = StatusMessage("stopped")
                     /\ save_status_service(simulation_id, "stopped")
                     /\ resp' = [op |-> "stop_publisher", status |-> "Publisher stopped"]
                ELSE /\ resp' = [op |-> "stop_publisher", status |-> "ConnectionError"]
                     /\ UNCHANGED <<sink, statuses>>
    /\ UNCHANGED <<simulations, meters, devices, algorithms, now, mqtt_connected,
                   session_cache, batch>>

(* the broker connection drops or comes back *)
MqttDisconnect ==
    /\ mqtt_connected
    /\ mqtt_connected' = FALSE
    /\ UNCHANGED <<storeVars, resp, now, publish_task, sink, session_cache, batch>>

MqttReconnect ==
    /\ ~mqtt_connected
    /\ mqtt_connected' = TRUE
    /\ UNCHANGED <<storeVars, resp, now, publish_task, sink, session_cache, batch>>

(* DELETE /algorithms/{algorithm_id}: rows in use can be deleted *)
delete_algorithm(algs, algorithm_id) ==
    IF get_consumption_algorithm_by_id(algs, algorithm_id) = 0 THEN algs
    ELSE [algs EXCEPT ![algorithm_id].deleted = TRUE]

DeleteAlgorithm ==
    /\ batch.pc = "idle"
    /\ \E algorithm_id \in {devices[i].algorithm_id : i \in 1..Len(devices)} :
          /\ get_consumption_algorithm_by_id(algorithms, algorithm_id) # 0
          /\ algorithms' = delete_algorithm(algorithms, algorithm_id)
          /\ resp' = [op |-> "delete_algorithm", status |-> "ok"]
    /\ UNCHANGED <<simulations, meters, devices, statuses>>
    /\ UNCHANGED <<liveVars, batch>>

----------------------------------------------------------------------------
(* Specification of the live loop next to the handlers that change what it *)
(* reads                                                                   *)

LiveDeviceSetups ==
    { <<>>,
      <<Device(1, AlgorithmIdOf("cyclic_script"), 10, 20, 2, 1)>>,
      <<Device(1, AlgorithmIdOf("cyclic_script"), 10, 20, 2, 1),
        Device(1, AlgorithmIdOf("user_str_live"), 6, 8, 2, 1)>> }

LiveSimRequests ==
    { [is_active |-> FALSE, output_unit |-> "W", time_unit |-> "seconds",
       time_speed |-> SpeedDen, simulation_start_time |-> None],
      [is_active |-> TRUE, output_unit |-> "BTU", time_unit |-> "minutes",
       time_speed |-> 2 * SpeedDen, simulation_start_time |-> 0] }

LiveUpdateBodies ==
    { [values |-> [output_unit |-> "kW"], nulls |-> {}],
      [values |-> [time_unit |-> "hours", time_speed |-> 3 * SpeedDen], nulls |-> {}] }

InitLive ==
    /\ simulations = <<default_simulation>>
    /\ meters = <<[simulation_id |-> 1, base_consumption |-> 50]>>
    /\ devices \in LiveDeviceSetups
    /\ algorithms = SeededAlgorithms
    /\ statuses = [i \in 1..MaxSimulations |-> "None"]
    /\ resp = [op |-> "startup", status |-> "ok"]
    /\ now = 0
    /\ publish_task = "None"
    /\ mqtt_connected = TRUE
    /\ sink = NoMessage
    /\ session_cache = [i \in 1..MaxSimulations |-> <<>>]
    /\ batch = IdleBatch

LiveCreateSimulation == CreateSimulationFrom(LiveSimRequests)

SpecLive ==
    /\ InitLive
    /\ [][StartPublisher
          \/ StopPublisher
          \/ Tick
          \/ SleepDone
          \/ MqttDisconnect
          \/ MqttReconnect
          \/ LiveCreateSimulation
          \/ DeleteAlgorithm]_vars

(* C3: the live loop never ends because a tick failed: whichever step of   *)
(* the tick raised, the loop is suspended in its sleep (or scheduled for   *)
(* the next tick) afterwards, and the task is never finished by an         *)
(* exception.                                                              *)
C3_LoopSurvivesFailingTick ==
    /\ publish_task # "dead"
    /\ (resp.op = "tick" /\ resp.status = "failed") => publish_task \in {"sleep", "ready"}

C3_Witness ==
    /\ resp.op = "tick"
    /\ resp.status = "failed"
    /\ resp.exc = "ConnectionError"
    /\ publish_task = "ready"

----------------------------------------------------------------------------
(* Specification of the live loop next to configuration changes *)

FreshSimRequests ==
    { [is_active |-> TRUE, output_unit |-> "kWh/day", time_unit |-> "minutes",
       time_speed |-> 2 * SpeedDen, simulation_start_time |-> 0] }

FreshUpdateBodies ==
    { [values |-> [output_unit |-> "kW", time_unit |-> "hours",
                   time_speed |-> 3 * SpeedDen], nulls |-> {}] }

FreshCreateSimulation == CreateSimulationFrom(FreshSimRequests)
FreshUpdateSimulation == UpdateSimulationFrom(FreshUpdateBodies)

SpecFresh ==
    /\ InitLive
    /\ [][StartPublisher
          \/ Tick
          \/ SleepDone
          \/ FreshCreateSimulation
          \/ FreshUpdateSimulation]_vars

(* C4: a sample published by the live loop carries the output unit,        *)
(* time_unit, time_speed and id of the simulation that is active in the    *)
(* store at that tick, also right after an update or a switch of the       *)
(* active simulation.                                                      *)
C4_SampleCarriesCurrentConfig ==
    (resp.op = "tick" /\ resp.status = "published") =>
        LET id == get_first_active_simulation(simulations)
        IN  /\ id # 0
            /\ sink.subject = "consumption"
            /\ sink.data.simulation_id = id
            /\ sink.data.unit = simulations[id].output_unit
            /\ sink.data.time_unit = simulations[id].time_unit
            /\ sink.data.time_speed = simulations[id].time_speed

(* a tick that publishes the first simulation with values only an update   *)
(* made after startup can have given it                                    *)
C4_Witness ==
    /\ resp.op = "tick"
    /\ resp.status = "published"
    /\ sink.data.simulation_id = 1
    /\ sink.data.unit = "kW"
    /\ sink.data.time_unit = "hours"
    /\ sink.data.time_speed = 3 * SpeedDen

----------------------------------------------------------------------------
(* Batch generation: generate_simulation_data *)

(* the model keeps the first MaxPoints samples of a call; a call over a    *)
(* day sampled every hour, or over 0..MaxTime with a positive interval,    *)
(* never has more                                                          *)
MaxPoints == HOURS_PER_DAY + MaxTime

(* request.start_time and request.end_time are datetimes, held here as a   *)
(* count of 1/TimeDen second since the epoch                               *)
TimeDen == 2

(* int(t.timestamp()) for a datetime t at or after the epoch *)
int_timestamp(t) == Trunc(t, TimeDen)

(* x or default, for an optional request field: the default is taken when  *)
(* the field is absent (None) and when its value is falsy (0)              *)
py_or(overrides, key, default) ==
    IF key \in DOMAIN overrides /\ overrides[key] # 0 THEN overrides[key] ELSE default

(* a sample clock that scales the timestamp from the epoch *)
calculate_simulation_time_for_timestamp_from_epoch(current_timestamp, time_speed, start_timestamp) ==
    Trunc(current_timestamp * time_speed, SpeedDen)

(* calculate_simulation_time_for_timestamp *)
calculate_simulation_time_for_timestamp(current_timestamp, time_speed, start_timestamp) ==
    LET elapsed_real == current_timestamp - start_timestamp
    IN  Trunc(start_timestamp * SpeedDen + elapsed_real * time_speed, SpeedDen)

(* the configuration a request is served with *)
batch_config(request, simulation) ==
    IF request.use_current_simulation
    THEN [time_unit |-> simulation.time_unit, time_speed |-> simulation.time_speed,
          output_unit |-> simulation.output_unit]
    ELSE [time_unit |->
              IF "time_unit" \in DOMAIN request.overrides
              THEN request.overrides.time_unit ELSE "seconds",
          time_speed |-> py_or(request.overrides, "time_speed", SpeedDen),
          output_unit |->
              IF "output_unit" \in DOMAIN request.overrides
              THEN request.overrides.output_unit ELSE "W"]

(* the list comprehension [d for d in device_sims if d.id in device_ids] *)
selected_devices(device_sims, device_ids) ==
    SelectSeq(device_sims, LAMBDA d : \E k \in 1..Len(device_ids) : device_ids[k] = d)

(* device_simulations after the first n passes of the loop over device_ids *)
RECURSIVE extended_devices(_, _, _)
extended_devices(n, device_sims, device_ids) ==
    IF n = 0 THEN <<>>
    ELSE extended_devices(n - 1, device_sims, device_ids)
             \o selected_devices(device_sims, device_ids)

batch_devices(request, devs, electric_meter_id) ==
    IF request.device_ids # <<>>
    THEN extended_devices(Len(request.device_ids),
                          get_device_simulations(devs, electric_meter_id),
                          request.device_ids)
    ELSE get_device_simulations(devs, electric_meter_id)

(* One pass of the device loop of a sample.  The script lookup is outside  *)
(* the try: a missing row raises out of the function.  Inside the try, an  *)
(* exception of the script, or a value DeviceConsumptionPoint does not     *)
(* accept as a float, ends in the except branch with a 0.0 point; NaN is   *)
(* a float and is added.                                                   *)
batch_device_consumption(algs, device_simulation, simulation_time, extra_params) ==
    IF get_consumption_algorithm_by_id(algs, device_simulation.algorithm_id) = 0
    THEN Raise("AttributeError")
    ELSE LET r == execute_custom_simulation(
                      algs[device_simulation.algorithm_id].script, simulation_time,
                      device_simulation.consumption_value,
                      device_simulation.peak_consumption,
                      device_simulation.cycle_duration,
                      device_simulation.on_duration, extra_params)
         IN  IF r.kind \in {"raise", "str"} THEN Num(0) ELSE r

(* the per-device values of one sample, in evaluation order; evaluation    *)
(* stops at the first pass that raises                                     *)
RECURSIVE device_points(_, _, _, _, _)
device_points(ids, devs, algs, simulation_time, extra_params) ==
    IF ids = <<>> THEN <<>>
    ELSE LET c == batch_device_consumption(algs, devs[Head(ids)], simulation_time,
                                           extra_params)
         IN  IF c.kind = "raise" THEN <<[device_id |-> Head(ids), consumption |-> c]>>
             ELSE <<[device_id |-> Head(ids), consumption |-> c]>>
                      \o device_points(Tail(ids), devs, algs, simulation_time,
                                       extra_params)

RECURSIVE total_of(_)
total_of(points) ==
    IF points = <<>> THEN Num(0)
    ELSE PyAdd(points[1].consumption, total_of(Tail(points)))

(* the sample at current_timestamp, or the exception its evaluation raises *)
batch_sample(b, devs, algs, mts) ==
    LET simulation_time ==
            calculate_simulation_time_for_timestamp(b.ts, b.cfg.time_speed,
                                                    b.start_timestamp)
        extra_params == ExtraParams(b.cfg.time_unit, b.cfg.time_speed)
        points == device_points(b.ids, devs, algs, simulation_time, extra_params)
        total_device_consumption == total_of(points)
        total_consumption_watts ==
            PyAdd(total_device_consumption, Num(mts[b.meter].base_consumption))
        total_consumption_output == watts_to_unit(total_consumption_watts, b.cfg.output_unit)
    IN  IF total_device_consumption.kind = "raise"
        THEN [status |-> "raise", exc |-> total_device_consumption.exc]
        ELSE IF total_consumption_output.kind = "raise"
        THEN [status |-> "raise", exc |-> total_consumption_output.exc]
        ELSE [status |-> "ok", exc |-> "",
              point |-> [unix_timestamp |-> b.ts, simulation_time |-> simulation_time,
                         extra_params |-> IF b.ids = <<>> THEN << >> ELSE <<extra_params>>,
                         total_consumption |-> total_consumption_output,
                         devices |-> points]]

(* Arithmetic on converted values (fractions kept in lowest terms, the     *)
(* denominator positive; NaN absorbs)                                      *)
Abs(n) == IF n < 0 THEN 0 - n ELSE n

RECURSIVE GCD(_, _)
GCD(a, b) == IF b = 0 THEN a ELSE GCD(b, a % b)

FracNaN == [kind |-> "nan", num |-> 0, den |-> 1, exc |-> ""]

Reduce(f) ==
    IF f.kind # "num" THEN f
    ELSE IF f.num = 0 THEN Frac(0, 1)
    ELSE LET g == GCD(Abs(f.num), f.den)
         IN  Frac(f.num \div g, f.den \div g)

(* The operators below bind each operand once ({e : x \in {a}}) so that a  *)
(* nested sum is evaluated in as many steps as it has terms.               *)

(* a + b *)
FracAdd(a, b) ==
    CHOOSE r \in { IF x.kind = "nan" \/ y.kind = "nan" THEN FracNaN
                   ELSE LET g == GCD(x.den, y.den)
                        IN  Reduce(Frac(x.num * (y.den \div g) + y.num * (x.den \div g),
                                        x.den * (y.den \div g)))
                   : x \in {Reduce(a)}, y \in {Reduce(b)} } : TRUE

(* a * b *)
FracMul(a, b) ==
    CHOOSE r \in { IF x.kind = "nan" \/ y.kind = "nan" THEN FracNaN
                   ELSE LET g1 == IF x.num = 0 THEN y.den ELSE GCD(Abs(x.num), y.den)
                            g2 == IF y.num = 0 THEN x.den ELSE GCD(Abs(y.num), x.den)
                        IN  Reduce(Frac((x.num \div g1) * (y.num \div g2),
                                        (x.den \div g2) * (y.den \div g1)))
                   : x \in {Reduce(a)}, y \in {Reduce(b)} } : TRUE

(* a / n for a whole n > 0 *)
FracDivInt(a, n) == FracMul(a, Frac(1, n))

(* a < b as Python compares floats: False when either is NaN *)
FracLess(a, b) ==
    /\ a.kind = "num" /\ b.kind = "num"
    /\ LET g == GCD(a.den, b.den)
       IN  a.num * (b.den \div g) < b.num * (a.den \div g)

(* min(values) is py_min_from(Head(values), Tail(values)): the first value *)
(* no later one is less than                                               *)
RECURSIVE py_min_from(_, _)
py_min_from(m, values) ==
    IF values = <<>> THEN m
    ELSE CHOOSE r \in { py_min_from(n, Tail(values)) :
                          n \in {IF FracLess(Head(values), m) THEN Head(values) ELSE m} }
                : TRUE

(* max(values) is py_max_from(Head(values), Tail(values)): the first value *)
(* no later one is greater than                                            *)
RECURSIVE py_max_from(_, _)
py_max_from(m, values) ==
    IF values = <<>> THEN m
    ELSE CHOOSE r \in { py_max_from(n, Tail(values)) :
                          n \in {IF FracLess(m, Head(values)) THEN Head(values) ELSE m} }
                : TRUE

(* sum(values) is py_sum_from(Frac(0, 1), values) *)
RECURSIVE py_sum_from(_, _)
py_sum_from(acc, values) ==
    IF values = <<>> THEN acc
    ELSE CHOOSE r \in { py_sum_from(n, Tail(values)) : n \in {FracAdd(acc, Head(values))} }
                : TRUE

(* a total energy that mistakes every energy rate for a power *)
calculate_total_energy_ignores_period(avg_consumption, duration_hours, output_unit) ==
    IF output_unit = "W"
    THEN FracDivInt(FracMul(avg_consumption, duration_hours), 1000)
    ELSE FracMul(avg_consumption, duration_hours)

(* calculate_total_energy; a unit that is neither W nor kW nor one of the  *)
(* energy rates falls through to the last return                           *)
calculate_total_energy(avg_consumption, duration_hours, output_unit) ==
    IF output_unit = "W"
    THEN FracDivInt(FracMul(avg_consumption, duration_hours), 1000)
    ELSE IF output_unit = "kW"
    THEN FracMul(avg_consumption, duration_hours)
    ELSE IF output_unit = "kWh/year"
    THEN FracMul(avg_consumption, FracDivInt(duration_hours, 8760))
    ELSE IF output_unit = "kWh/month"
    THEN FracMul(avg_consumption, FracDivInt(duration_hours, 720))
    ELSE IF output_unit = "kWh/day"
    THEN FracMul(avg_consumption, FracDivInt(duration_hours, 24))
    ELSE FracMul(avg_consumption, duration_hours)

get_energy_unit(output_unit) ==
    IF output_unit \in {"W", "kW"} THEN "kWh"
    ELSE IF output_unit \in {"kWh/day", "kWh/month", "kWh/year"} THEN output_unit
    ELSE "kWh"

(* the statistics computed after the sampling loop *)
batch_statistics(consumption_values, duration_seconds, output_unit) ==
    CHOOSE r \in {
        [min_consumption |-> IF consumption_values # <<>>
                             THEN Reduce(py_min_from(Head(consumption_values),
                                                     Tail(consumption_values))) ELSE Frac(0, 1),
         max_consumption |-> IF consumption_values # <<>>
                             THEN Reduce(py_max_from(Head(consumption_values),
                                                     Tail(consumption_values))) ELSE Frac(0, 1),
         avg_consumption |-> avg_consumption,
         total_energy |-> calculate_total_energy(avg_consumption, duration_hours,
                                                 output_unit),
         energy_unit |-> get_energy_unit(output_unit)]
        : avg_consumption \in {IF consumption_values # <<>>
                               THEN FracDivInt(py_sum_from(Frac(0, 1), consumption_values),
                                               Len(consumption_values))
                               ELSE Frac(0, 1)},
          duration_hours \in {Reduce(Frac(duration_seconds, 3600))} } : TRUE

BatchError(request, exc, stage) ==
    [op |-> "generate_simulation_data", status |-> "error", exc |-> exc,
     stage |-> stage, request |-> request]

(* a loop that stops before the end of the range *)
loop_continues_before_end(current_timestamp, end_timestamp) ==
    current_timestamp < end_timestamp

(* the test of while current_timestamp <= end_timestamp *)
loop_continues(current_timestamp, end_timestamp) ==
    current_timestamp <= end_timestamp

(* a call that has returned a response *)
Completed(r) == r.op = "generate_simulation_data" /\ r.status = "ok"

(* a response without the history kept with it *)
StripHistory(r) == [f \in DOMAIN r \ {"previous"} |-> r[f]]

(* POST /simulation-data/generate: the handler up to the sampling loop.    *)
(* With remember, the call keeps as history the response the call before   *)
(* it returned when that call had the same request.                        *)
(* a lookup that falls back to the first simulation *)
session_get_or_first(sims, simulation_id) ==
    IF simulation_id \in 1..Len(sims) THEN simulation_id ELSE 1

(* session.get(Simulation, simulation_id): the row's id, 0 for None *)
session_get(sims, simulation_id) ==
    IF simulation_id \in 1..Len(sims) THEN simulation_id ELSE 0

BatchStart(requests, remember) ==
    /\ batch.pc = "idle"
    /\ \E request \in requests :
        IF session_get(simulations, request.simulation_id) = 0
        THEN /\ resp' = BatchError(request, "ValueError", "simulation")
             /\ UNCHANGED batch
        ELSE LET simulation_id == session_get(simulations, request.simulation_id)
                 simulation == simulations[simulation_id]
                 electric_meter == get_electric_meter(meters, simulation_id)
             IN  IF electric_meter = 0
                 THEN /\ resp' = BatchError(request, "AttributeError", "meter")
                      /\ UNCHANGED batch
                 ELSE /\ batch' = [pc |-> "loop", req |-> request,
                                   cfg |-> batch_config(request, simulation),
                                   meter |-> electric_meter,
                                   ids |-> batch_devices(request, devices, electric_meter),
                                   start_timestamp |-> int_timestamp(request.start_time),
                                   end_timestamp |-> int_timestamp(request.end_time),
                                   ts |-> int_timestamp(request.start_time),
                                   points |-> <<>>,
                                   previous |->
                                       IF remember /\ Completed(resp)
                                                   /\ resp.request = request
                                       THEN <<StripHistory(resp)>> ELSE << >>]
                      /\ resp' = [op |-> "generate_simulation_data",
                                  status |-> "running", request |-> request]
    /\ UNCHANGED <<storeVars, liveVars>>

(* A step of the handler from the sampling loop on: at "loop" the test of  *)
(* while current_timestamp <= end_timestamp, which enters the body or goes *)
(* on to the code after the loop and returns; at "body" one pass of the    *)
(* body.  The handler never suspends, so nothing else runs meanwhile.      *)
BatchStep ==
    /\ batch.pc \in {"loop", "body"}
    /\ IF batch.pc = "body"
       THEN \E r \in {batch_sample(batch, devices, algorithms, meters)} :
                IF r.status = "raise"
                THEN /\ resp' = BatchError(batch.req, r.exc, "sample")
                     /\ batch' = IdleBatch
                ELSE /\ batch' = [batch EXCEPT
                            !.pc = "loop",
                            !.points = IF Len(@) < MaxPoints THEN Append(@, r.point) ELSE @,
                            !.ts = @ + batch.req.sample_interval_seconds]
                     /\ UNCHANGED resp
       ELSE IF loop_continues(batch.ts, batch.end_timestamp)
       THEN /\ batch' = [batch EXCEPT !.pc = "body"]
            /\ UNCHANGED resp
       ELSE LET duration_seconds == batch.end_timestamp - batch.start_timestamp
                consumption_values ==
                    [k \in 1..Len(batch.points) |-> batch.points[k].total_consumption]
            IN  \E statistics \in {batch_statistics(consumption_values, duration_seconds,
                                                    batch.cfg.output_unit)} :
                /\ resp' = [op |-> "generate_simulation_data", status |-> "ok",
                            request |-> batch.req,
                            total_data_points |-> Len(batch.points),
                            duration_seconds |-> duration_seconds,
                            min_consumption |-> statistics.min_consumption,
                            max_consumption |-> statistics.max_consumption,
                            avg_consumption |-> statistics.avg_consumption,
                            total_energy |-> statistics.total_energy,
                            consumption_unit |-> batch.cfg.output_unit,
                            energy_unit |-> statistics.energy_unit,
                            data_points |-> batch.points,
                            previous |-> batch.previous]
                /\ batch' = IdleBatch
    /\ UNCHANGED <<storeVars, liveVars>>

----------------------------------------------------------------------------
(* Specification of batch generation *)

BatchDeviceSetups ==
    { <<Device(1, AlgorithmIdOf("cyclic_script"), 10, 20, 2, 1),
        Device(1, AlgorithmIdOf("user_raise_live"), 6, 8, 2, 1)>>,
      <<Device(1, AlgorithmIdOf("user_nan_live"), 6, 8, 2, 1),
        Device(1, AlgorithmIdOf("user_sum"), 3, 4, 2, 1)>> }

(* a simulation created with a speed of 0 *)
BatchSimRequests ==
    { [is_active |-> TRUE, output_unit |-> "W", time_unit |-> "seconds",
       time_speed |-> 0, simulation_start_time |-> None] }

BatchOverrides ==
    { << >>,
      [time_speed |-> 0, output_unit |-> "BTU"],
      [time_speed |-> 0 - SpeedDen, output_unit |-> "kW"] }

BatchRequests ==
    [simulation_id : {1, 2, MaxSimulations + 1},
     use_current_simulation : BOOLEAN,
     start_time : {0, TimeDen + 1},
     end_time : {0, MaxTime * TimeDen},
     sample_interval_seconds : {1, 2},
     overrides : BatchOverrides,
     device_ids : {<<>>, <<1>>}]

InitBatch ==
    /\ simulations = <<default_simulation>>
    /\ meters = <<[simulation_id |-> 1, base_consumption |-> 50]>>
    /\ devices \in BatchDeviceSetups
    /\ algorithms = SeededAlgorithms
    /\ statuses = [i \in 1..MaxSimulations |-> "None"]
    /\ resp = [op |-> "startup", status |-> "ok"]
    /\ now = 0
    /\ publish_task = "None"
    /\ mqtt_connected = TRUE
    /\ sink = NoMessage
    /\ session_cache = [i \in 1..MaxSimulations |-> <<>>]
    /\ batch = IdleBatch

BatchCreateSimulation == CreateSimulationFrom(BatchSimRequests)
GenerateData == BatchStart(BatchRequests, FALSE)

SpecBatch ==
    /\ InitBatch
    /\ [][GenerateData
          \/ BatchStep
          \/ BatchCreateSimulation
          \/ DeleteAlgorithm]_vars

(* The sampling loop alone: calls on the default simulation.  The handler  *)
(* is one coroutine without a suspension point, so once called it keeps    *)
(* taking steps until it returns.                                          *)
LoopRequests ==
    [simulation_id : {1},
     use_current_simulation : {TRUE},
     start_time : {0, TimeDen},
     end_time : {0, MaxTime * TimeDen},
     sample_interval_seconds : {0, 1, 2},
     overrides : {<< >>},
     device_ids : {<<>>, <<1>>}]

GenerateLoopData == BatchStart(LoopRequests, FALSE)

SpecLoop ==
    /\ InitBatch
    /\ [][GenerateLoopData
          \/ BatchStep]_vars
    /\ WF_vars(BatchStep)

(* the speed a request asks to be served with *)
RequestedSpeed(request) ==
    IF request.use_current_simulation
    THEN simulations[request.simulation_id].time_speed
    ELSE IF "time_speed" \in DOMAIN request.overrides
         THEN request.overrides.time_speed ELSE SpeedDen

(* C6: once the simulation and its meter are resolved, a failure while     *)
(* evaluating a device (loading its script or running it) gives a zero     *)
(* contribution and the response is still returned: such a request can     *)
(* only fail for its unit, never with the error of a device.               *)
C6_DeviceFailureKeepsResponse ==
    (resp.op = "generate_simulation_data" /\ resp.status = "error")
    => (resp.stage \in {"simulation", "meter"} \/ resp.exc = "ValueError")

(* C8: a time_speed <= 0, be it the simulation's own or an override, is    *)
(* rejected before any device is evaluated: no call with such a speed      *)
(* gets into the body of the sampling loop.                                *)
C8_NonPositiveSpeedRejected ==
    batch.pc = "body" => RequestedSpeed(batch.req) > 0

(* C17: a generate_simulation_data call whose output unit is not one of    *)
(* W, kW, kWh/day, kWh/month, kWh/year ends in an error: no response is    *)
(* returned in such a unit.                                                *)
C17_UnsupportedUnitIsFatal ==
    Completed(resp) => resp.consumption_unit \in SupportedUnits

(* C10: every generate_simulation_data call that entered its sampling loop *)
(* returns.                                                                *)
C10_BatchTerminates == (batch.pc # "idle") ~> (batch.pc = "idle")

----------------------------------------------------------------------------
(* Algorithm scripts in the store: validation, seeding, create and update *)

MaxAlgorithms == 8

(* the empty text *)
EmptyScript == Script("", TRUE, TRUE, FALSE, <<>>, "none")

(* a validator that never looks at what the test call returns *)
validate_algorithm_script_skips_return_check(script_code) ==
    IF script_code = EmptyScript THEN "empty"
    ELSE IF ~script_code.parses THEN "syntax"
    ELSE IF ~script_code.defines THEN "no_simulate"
    ELSE IF Len(positional_args(script_code.args)) # Len(RequiredArgs) THEN "arg_count"
    ELSE IF \E i \in 1..Len(RequiredArgs) :
                positional_args(script_code.args)[i] # RequiredArgs[i]
         THEN "arg_name"
    ELSE IF ~script_code.compiles THEN "test_execution"
    ELSE "ok"

(* _validate_algorithm_script: "ok", or the step whose ValueError rejects  *)
(* the text                                                                *)
validate_algorithm_script(script_code) ==
    IF script_code = EmptyScript THEN "empty"
    ELSE IF ~script_code.parses THEN "syntax"
    ELSE IF ~script_code.defines THEN "no_simulate"
    ELSE IF Len(positional_args(script_code.args)) # Len(RequiredArgs) THEN "arg_count"
    ELSE IF \E i \in 1..Len(RequiredArgs) :
                positional_args(script_code.args)[i] # RequiredArgs[i]
         THEN "arg_name"
    ELSE IF ~script_code.compiles THEN "test_execution"
    ELSE LET test_result == Simulate(script_code.body, 1000, 10, 20, 60, 30, << >>)
         IN  CASE test_result.kind = "num" -> "ok"
               [] test_result.kind = "nan" -> "non_finite"
               [] test_result.kind = "str" -> "not_number"
               [] test_result.kind = "raise" -> "test_execution"

(* texts a client submits *)
AlgorithmScriptInputs ==
    { UserScripts[1], UserScripts[4],
      Script("user_nan", TRUE, TRUE, TRUE, RequiredArgs, "nan"),
      Script("user_str", TRUE, TRUE, TRUE, RequiredArgs, "str"),
      Script("user_raise", TRUE, TRUE, TRUE, RequiredArgs, "raise"),
      Script("user_bad_syntax", FALSE, FALSE, FALSE, <<>>, "none"),
      Script("user_no_simulate", TRUE, TRUE, FALSE, <<>>, "none"),
      Script("user_five_args", TRUE, TRUE, TRUE, SubSeq(RequiredArgs, 1, 5), "sum"),
      EmptyScript,
      tv_script }

(* AlgorithmUpdate bodies: script left out, sent as null, or sent as text *)
AlgorithmUpdateBodies ==
    { [script_sent |-> "unset", script |-> EmptyScript],
      [script_sent |-> "null", script |-> EmptyScript] }
    \cup { [script_sent |-> "text", script |-> t] : t \in AlgorithmScriptInputs }

LiveAlgorithmIds(algs) == { i \in 1..Len(algs) : ~algs[i].deleted }

RECURSIVE AppendAll(_, _)
AppendAll(rows, scripts) ==
    IF scripts = <<>> THEN rows
    ELSE AppendAll(Append(rows, AlgorithmRow(Head(scripts))), Tail(scripts))

(* check_initial_config at startup.  The Device catalogue it also fills is *)
(* read by none of the operations here; update_existing_simulations only   *)
(* touches rows with NULL columns, which no operation here writes.         *)
CheckInitialConfig ==
    /\ batch.pc = "idle"
    /\ LiveAlgorithmIds(algorithms) = {}
          => Len(algorithms) + Len(DefaultAlgorithms) <= MaxAlgorithms
    /\ algorithms' = IF LiveAlgorithmIds(algorithms) = {}
                     THEN AppendAll(algorithms, DefaultAlgorithms)
                     ELSE algorithms
    /\ simulations' = IF ActiveIds(simulations) = {}
                      THEN Append(simulations, default_simulation)
                      ELSE simulations
    /\ \E base_consumption \in BaseLoads :
          meters' = IF meters = <<>>
                    THEN <<[simulation_id |->
                               IF ActiveIds(simulations) = {}
                               THEN Len(simulations) + 1 ELSE 0,
                            base_consumption |-> base_consumption]>>
                    ELSE meters
    /\ resp' = [op |-> "check_initial_config", status |-> "ok"]
    /\ UNCHANGED <<devices, statuses, liveVars, batch>>

(* POST /algorithms: AlgorithmCreate validates the script, then            *)
(* create_algorithm stores the row                                         *)
CreateAlgorithm ==
    /\ batch.pc = "idle"
    /\ simulations # <<>>
    /\ Len(algorithms) < MaxAlgorithms
    /\ \E script \in AlgorithmScriptInputs :
          LET verdict == validate_algorithm_script(script)
          IN  IF verdict # "ok"
              THEN /\ resp' = [op |-> "create_algorithm", status |-> "rejected",
                               why |-> verdict]
                   /\ UNCHANGED algorithms
              ELSE /\ algorithms' = Append(algorithms, AlgorithmRow(script))
                   /\ resp' = [op |-> "create_algorithm", status |-> "ok",
                               why |-> verdict]
    /\ UNCHANGED <<simulations, meters, devices, statuses, liveVars, batch>>

(* update_algorithm of the repository: the fields that were sent are set   *)
(* on the row; a null script fails the commit (the column is NOT NULL)     *)
update_algorithm(algs, algorithm_id, body) ==
    IF body.script_sent = "text"
    THEN [algs EXCEPT ![algorithm_id].script = body.script]
    ELSE algs

(* PUT /algorithms/{algorithm_id} *)
UpdateAlgorithm ==
    /\ batch.pc = "idle"
    /\ simulations # <<>>
    /\ \E algorithm_id \in {1, Len(algorithms), Len(algorithms) + 1},
          body \in AlgorithmUpdateBodies :
          LET verdict == IF body.script_sent = "text"
                         THEN validate_algorithm_script(body.script) ELSE "ok"
          IN  IF verdict # "ok"
              THEN /\ resp' = [op |-> "update_algorithm", status |-> "rejected",
                               why |-> verdict]
                   /\ UNCHANGED algorithms
              ELSE IF get_consumption_algorithm_by_id(algorithms, algorithm_id) = 0
              THEN /\ resp' = [op |-> "update_algorithm", status |-> "error",
                               why |-> "not_found"]
                   /\ UNCHANGED algorithms
              ELSE IF body.script_sent = "null"
              THEN /\ resp' = [op |-> "update_algorithm", status |-> "error",
                               why |-> "IntegrityError"]
                   /\ UNCHANGED algorithms
              ELSE /\ algorithms' = update_algorithm(algorithms, algorithm_id, body)
                   /\ resp' = [op |-> "update_algorithm", status |-> "ok",
                               why |-> verdict]
    /\ UNCHANGED <<simulations, meters, devices, statuses, liveVars, batch>>

(* the store as create_db_and_tables leaves it *)
InitAlg ==
    /\ simulations = <<>>
    /\ meters = <<>>
    /\ devices = <<>>
    /\ algorithms = <<>>
    /\ statuses = [i \in 1..MaxSimulations |-> "None"]
    /\ resp = [op |-> "startup", status |-> "ok"]
    /\ now = 0
    /\ publish_task = "None"
    /\ mqtt_connected = TRUE
    /\ sink = NoMessage
    /\ session_cache = [i \in 1..MaxSimulations |-> <<>>]
    /\ batch = IdleBatch

SpecAlg ==
    /\ InitAlg
    /\ [][CheckInitialConfig
          \/ CreateAlgorithm
          \/ UpdateAlgorithm]_vars

(* C9: after seeding and any sequence of algorithm create and update       *)
(* requests, every stored ConsumptionAlgorithm has a script that passes    *)
(* _validate_algorithm_script.                                             *)
C9_StoredScriptsPassValidation ==
    \A i \in LiveAlgorithmIds(algorithms) :
        validate_algorithm_script(algorithms[i].script) = "ok"

----------------------------------------------------------------------------
(* The state after startup with the given rows in the store, a meter of    *)
(* 50 W for the first simulation, and no task started                      *)
InitStore(sims, devs, algs) ==
    /\ simulations = sims
    /\ meters = <<[simulation_id |-> 1, base_consumption |-> 50]>>
    /\ devices = devs
    /\ algorithms = algs
    /\ statuses = [i \in 1..MaxSimulations |-> "None"]
    /\ resp = [op |-> "startup", status |-> "ok"]
    /\ now = 0
    /\ publish_task = "None"
    /\ mqtt_connected = TRUE
    /\ sink = NoMessage
    /\ session_cache = [i \in 1..MaxSimulations |-> <<>>]
    /\ batch = IdleBatch

----------------------------------------------------------------------------
(* Specification of the virtual clock on its own *)

(* calculate_simulation_time(simulation); previous holds what the call     *)
(* before this one returned                                                 *)
ReadClock ==
    /\ resp' = [op |-> "calculate_simulation_time", at |-> now,
                simulation |-> simulations[1],
                result |-> calculate_simulation_time(simulations[1], now),
                previous |-> IF resp.op = "calculate_simulation_time"
                             THEN <<resp.result>> ELSE << >>]
    /\ UNCHANGED <<storeVars, liveVars, batch>>

(* the stored simulation carries an anchor or none and a speed, in units   *)
(* of 1/SpeedDen, that is negative, fractional or whole                    *)
SpecClock ==
    /\ \E s \in {0 - 1, 1, SpeedDen, SpeedDen + 1, 2 * SpeedDen + 1},
          a \in {None} \cup 0..MaxNow :
          InitStore(<<[default_simulation EXCEPT !.time_speed = s,
                                                !.simulation_start_time = a]>>,
                    << >>, SeededAlgorithms)
    /\ [][Advance \/ ReadClock]_vars

(* C13: calculate_simulation_time returns anchor + (now - anchor) * speed  *)
(* when an anchor is set, so the anchor itself at now = anchor, and        *)
(* now * speed when none is set, each cut to whole seconds towards zero.   *)
C13_ClockIsReferenceClock ==
    resp.op = "calculate_simulation_time" =>
        LET anchor == resp.simulation.simulation_start_time
            speed == resp.simulation.time_speed
            \* the exact value, in units of 1/SpeedDen second
            exact == IF anchor # None
                     THEN anchor * SpeedDen + (resp.at - anchor) * speed
                     ELSE resp.at * speed
            r == resp.result
        IN  /\ IF exact >= 0
               THEN r * SpeedDen <= exact /\ exact < (r + 1) * SpeedDen
               ELSE r * SpeedDen >= exact /\ exact > (r - 1) * SpeedDen
            /\ (anchor # None /\ resp.at = anchor) => r = anchor

C13_Witness ==
    /\ resp.op = "calculate_simulation_time"
    /\ resp.simulation.simulation_start_time # None
    /\ resp.at > resp.simulation.simulation_start_time
    /\ resp.simulation.time_speed > SpeedDen
    /\ resp.result > resp.at

(* C14: with an anchor and a speed above zero, a later call of             *)
(* calculate_simulation_time never returns less than an earlier one.       *)
C14_ClockNeverGoesBack ==
    ( /\ resp.op = "calculate_simulation_time"
      /\ resp.previous # << >>
      /\ resp.simulation.simulation_start_time # None
      /\ resp.simulation.time_speed > 0 )
    => resp.result >= resp.previous[1]

C14_Witness ==
    /\ resp.op = "calculate_simulation_time"
    /\ resp.previous # << >>
    /\ resp.simulation.simulation_start_time # None
    /\ resp.simulation.time_speed > 0
    /\ resp.result > resp.previous[1]

----------------------------------------------------------------------------
(* Specification of the default cyclic algorithm on its own *)

MaxCurrentTime == 25

(* execute_custom_simulation(cyclic_script, ...) *)
CallCyclic ==
    /\ \E current_time \in (0 - 2)..MaxCurrentTime,
          base_consumption \in {0, 10}, peak_consumption \in {20, 100},
          cycle \in {<<10, 5>>, <<4, 1>>},
          extra_params \in {[base_interval |-> 1], ExtraParams("seconds", SpeedDen),
                            ExtraParams("minutes", SpeedDen)} :
          resp' = [op |-> "simulate", current_time |-> current_time,
                   base_consumption |-> base_consumption,
                   peak_consumption |-> peak_consumption,
                   cycle_duration |-> cycle[1], on_duration |-> cycle[2],
                   extra_params |-> extra_params,
                   result |-> execute_custom_simulation(
                                  cyclic_script, current_time, base_consumption,
                                  peak_consumption, cycle[1], cycle[2], extra_params)]
    /\ UNCHANGED <<storeVars, liveVars, batch>>

SpecCyclic ==
    InitStore(<<default_simulation>>, << >>, SeededAlgorithms) /\ [][CallCyclic]_vars

(* C19: with cycle_duration = 10, on_duration = 5 and base_interval = 1    *)
(* the cyclic algorithm returns the peak consumption when current_time     *)
(* leaves a remainder of 0..4 modulo 10 and the base consumption when it   *)
(* leaves 5..9, for every current_time >= 0.                               *)
C19_CyclicFiveOnFiveOff ==
    ( /\ resp.op = "simulate"
      /\ resp.cycle_duration = 10 /\ resp.on_duration = 5
      /\ resp.extra_params.base_interval = 1
      /\ resp.current_time >= 0 )
    => resp.result = IF resp.current_time % 10 \in 0..4
                     THEN Num(resp.peak_consumption)
                     ELSE Num(resp.base_consumption)

C19_Witness ==
    /\ resp.op = "simulate"
    /\ resp.cycle_duration = 10 /\ resp.on_duration = 5
    /\ resp.extra_params.base_interval = 1
    /\ resp.current_time > 10
    /\ resp.current_time % 10 = 5
    /\ resp.result = Num(resp.base_consumption)
    /\ resp.base_consumption # resp.peak_consumption

----------------------------------------------------------------------------
(* Specification of batch generation over ranges of request times *)

(* requests over a few seconds, with whole and fractional times, and the   *)
(* request for a day sampled every hour                                    *)
RangeRequests ==
    [simulation_id : {1},
     use_current_simulation : {TRUE},
     start_time : {0, 1, TimeDen + 1},
     end_time : {1, MaxTime * TimeDen, MaxTime * TimeDen + 1},
     sample_interval_seconds : {1, 2},
     overrides : {<< >>},
     device_ids : {<< >>}]
    \cup
    [simulation_id : {1},
     use_current_simulation : {FALSE},
     start_time : {0, 1, TimeDen + 1},
     end_time : {1, MaxTime * TimeDen, MaxTime * TimeDen + 1},
     sample_interval_seconds : {1, 2},
     overrides :
         { << >>,
           [time_unit |-> "minutes", time_speed |-> SpeedDen + 1,
            output_unit |-> "kWh/month"],
           [time_unit |-> "days", time_speed |-> 0 - 1, output_unit |-> "kW"],
           [time_unit |-> "hours", time_speed |-> 1, output_unit |-> "kWh/year"] },
     device_ids : {<< >>}]
    \cup
    [simulation_id : {1},
     use_current_simulation : {TRUE},
     start_time : {0},
     end_time : {SECONDS_PER_DAY * TimeDen},
     sample_interval_seconds : {SECONDS_PER_HOUR},
     overrides : {<< >>},
     device_ids : {<< >>}]

(* the evaluation of a live tick; a handler never suspends, so a tick runs *)
(* between two calls                                                       *)
RangeCalculate == batch.pc = "idle" /\ Calculate

(* the calls are made against one cyclic device and a stored simulation   *)
(* in one of four configurations                                           *)
SpecRange ==
    /\ \E simulation \in
             { default_simulation,
               [default_simulation EXCEPT !.output_unit = "kWh/day",
                    !.time_unit = "minutes", !.time_speed = 1,
                    !.simulation_start_time = 1],
               [default_simulation EXCEPT !.output_unit = "kW", !.time_unit = "hours",
                    !.time_speed = SpeedDen + 1],
               [default_simulation EXCEPT !.output_unit = "kWh/year",
                    !.time_unit = "days", !.simulation_start_time = 0] } :
          InitStore(<<simulation>>,
                    <<Device(1, AlgorithmIdOf("cyclic_script"), 10, 20, 2, 1)>>,
                    SeededAlgorithms)
    /\ [][BatchStart(RangeRequests, FALSE) \/ BatchStep \/ RangeCalculate \/ Advance]_vars

(* C11 as stated: for start_time <= end_time and a positive interval the   *)
(* response holds floor((end_time - start_time) / interval) + 1 samples,   *)
(* at start_time, start_time + interval, ...                               *)
C11_SamplesCoverRequestTimes ==
    ( /\ Completed(resp)
      /\ resp.request.start_time <= resp.request.end_time
      /\ resp.request.sample_interval_seconds > 0 )
    => LET interval == resp.request.sample_interval_seconds
           n == (resp.request.end_time - resp.request.start_time)
                    \div (interval * TimeDen) + 1
       IN  /\ resp.total_data_points = n
           /\ Len(resp.data_points) = n
           /\ \A k \in 1..Len(resp.data_points) :
                 resp.data_points[k].unix_timestamp * TimeDen
                     = resp.request.start_time + (k - 1) * interval * TimeDen

(* C11, amended: with start and end the request's start_time and end_time  *)
(* cut to whole seconds, start_time <= end_time and a positive interval,   *)
(* the response holds floor((end - start) / interval) + 1 samples, at      *)
(* start, start + interval, ...; a day sampled every hour gives 25.        *)
C11_SamplesCoverWholeSeconds ==
    ( /\ Completed(resp)
      /\ resp.request.start_time <= resp.request.end_time
      /\ resp.request.sample_interval_seconds > 0 )
    => LET interval == resp.request.sample_interval_seconds
           start == resp.request.start_time \div TimeDen
           end == resp.request.end_time \div TimeDen
           n == (end - start) \div interval + 1
       IN  /\ resp.total_data_points = n
           /\ Len(resp.data_points) = n
           /\ \A k \in 1..n : resp.data_points[k].unix_timestamp = start + (k - 1) * interval
           /\ (end - start = HOURS_PER_DAY * SECONDS_PER_HOUR /\ interval = SECONDS_PER_HOUR)
                 => resp.total_data_points = 25

C11_Witness ==
    /\ Completed(resp)
    /\ resp.request.start_time = 0
    /\ resp.request.end_time = SECONDS_PER_DAY * TimeDen
    /\ resp.request.sample_interval_seconds = SECONDS_PER_HOUR
    /\ resp.total_data_points = 25
    /\ resp.data_points[25].unix_timestamp = SECONDS_PER_DAY

(* C20 as stated: total_energy is the average converted consumption times  *)
(* the hours from start_time to end_time, divided by 1000 for W, by 1 for  *)
(* kW and by 24, 720, 8760 for kWh/day, kWh/month, kWh/year.               *)
C20_EnergyOverRequestTimes ==
    ( /\ Completed(resp)
      /\ resp.consumption_unit \in SupportedUnits
      /\ resp.avg_consumption.kind = "num" )
    => LET hours == Reduce(Frac(resp.request.end_time - resp.request.start_time,
                                3600 * TimeDen))
           unit == resp.consumption_unit
           divisor == CASE unit = "W" -> 1000
                        [] unit = "kW" -> 1
                        [] unit = "kWh/day" -> 24
                        [] unit = "kWh/month" -> 720
                        [] unit = "kWh/year" -> 8760
       IN  resp.total_energy = FracDivInt(FracMul(resp.avg_consumption, hours), divisor)

(* C20, amended: total_energy is the average of the samples' converted     *)
(* consumption times the hours between start_time and end_time cut to      *)
(* whole seconds (the response's duration_seconds), divided by 1000 for W, *)
(* by 1 for kW and by 24, 720, 8760 for kWh/day, kWh/month, kWh/year; over *)
(* a day in W it is avg_consumption * 24 / 1000.                           *)
C20_EnergyOverWholeSeconds ==
    ( /\ Completed(resp)
      /\ resp.consumption_unit \in SupportedUnits
      /\ resp.avg_consumption.kind = "num" )
    => LET start == resp.request.start_time \div TimeDen
           end == resp.request.end_time \div TimeDen
           hours == Reduce(Frac(end - start, 3600))
           unit == resp.consumption_unit
           divisor == CASE unit = "W" -> 1000
                        [] unit = "kW" -> 1
                        [] unit = "kWh/day" -> 24
                        [] unit = "kWh/month" -> 720
                        [] unit = "kWh/year" -> 8760
           values == [k \in 1..Len(resp.data_points) |->
                         resp.data_points[k].total_consumption]
       IN  /\ resp.duration_seconds = end - start
           /\ values # << >> =>
                 FracMul(resp.avg_consumption, Frac(Len(values), 1)) = py_sum_from(Frac(0, 1), values)
           /\ resp.total_energy = FracDivInt(FracMul(resp.avg_consumption, hours), divisor)
           /\ resp.energy_unit = IF unit \in {"W", "kW"} THEN "kWh" ELSE unit
           /\ (unit = "W" /\ end - start = HOURS_PER_DAY * SECONDS_PER_HOUR)
                 => FracMul(resp.total_energy, Frac(1000, 1))
                       = FracMul(resp.avg_consumption, Frac(24, 1))

C20_Witness ==
    /\ Completed(resp)
    /\ resp.consumption_unit = "kWh/year"
    /\ resp.duration_seconds = MaxTime
    /\ resp.total_data_points > 1
    /\ resp.total_energy.kind = "num"
    /\ resp.total_energy.num > 0
    /\ resp.total_energy
          = FracDivInt(FracMul(resp.avg_consumption, Frac(MaxTime, 3600)), 8760)

C18_ExtraParamsCarryTimeConfig ==
    LET Right(extra_params, time_unit, time_speed) ==
            /\ DOMAIN extra_params = {"base_interval", "time_unit", "time_speed", "factor"}
            /\ extra_params.time_unit = time_unit
            /\ extra_params.time_speed = time_speed
            /\ extra_params.factor = 1
            /\ time_unit = "seconds" => extra_params.base_interval = 1
            /\ time_unit = "minutes" => extra_params.base_interval = 60
            /\ time_unit = "hours" => extra_params.base_interval = 3600
            /\ time_unit = "days" => extra_params.base_interval = 86400
    IN  /\ resp.op = "calculate_consumption" =>
              \A i \in 1..Len(resp.extra_params) :
                  Right(resp.extra_params[i], simulations[1].time_unit,
                        simulations[1].time_speed)
        /\ Completed(resp) =>
              LET request == resp.request
                  simulation == simulations[request.simulation_id]
                  overrides == request.overrides
                  time_unit == IF request.use_current_simulation THEN simulation.time_unit
                               ELSE IF "time_unit" \in DOMAIN overrides
                                    THEN overrides.time_unit ELSE "seconds"
                  time_speed == IF request.use_current_simulation THEN simulation.time_speed
                                ELSE IF "time_speed" \in DOMAIN overrides
                                        /\ overrides.time_speed # 0
                                     THEN overrides.time_speed ELSE SpeedDen
              IN  \A k \in 1..Len(resp.data_points) :
                     \A i \in 1..Len(resp.data_points[k].extra_params) :
                         Right(resp.data_points[k].extra_params[i], time_unit, time_speed)

C18_Witness ==
    /\ Completed(resp)
    /\ ~resp.request.use_current_simulation
    /\ Len(resp.data_points) > 1
    /\ Len(resp.data_points[2].extra_params) = 1
    /\ resp.data_points[2].extra_params[1].base_interval = 60
    /\ resp.data_points[2].extra_params[1].time_unit = "minutes"
    /\ resp.data_points[2].extra_params[1].time_speed = SpeedDen + 1

----------------------------------------------------------------------------
(* Specification of repeated batch calls against one store *)

RepeatRequests ==
    [simulation_id : {1},
     use_current_simulation : {TRUE},
     start_time : {0},
     end_time : {TimeDen, MaxTime * TimeDen},
     sample_interval_seconds : {1, 2},
     overrides : {<< >>},
     device_ids : {<< >>}]

(* the store holds, besides the seeded rows, a script a client has created *)
(* through POST /algorithms that reads the wall clock; the meter has one   *)
(* device, on the cyclic script or on that script                          *)
SpecRepeat ==
    /\ \E algorithm_id \in {AlgorithmIdOf("cyclic_script"), Len(SeededAlgorithms) + 1} :
          InitStore(<<default_simulation>>,
                    <<Device(1, algorithm_id, 5, 20, 2, 1)>>,
                    Append(SeededAlgorithms,
                           AlgorithmRow(Script("user_clock", TRUE, TRUE, TRUE,
                                               RequiredArgs, "clock"))))
    /\ [][BatchStart(RepeatRequests, TRUE) \/ BatchStep \/ Advance]_vars

(* C12: a generate_simulation_data call returns the samples and statistics *)
(* the call before it returned for the same request, the store being the   *)
(* same, whatever the wall clock was at each call.                         *)
C12_SameRequestSameResponse ==
    (Completed(resp) /\ resp.previous # << >>)
    => StripHistory(resp) = resp.previous[1]

----------------------------------------------------------------------------
(* Python floats (IEEE-754 binary64) in the unit converter *)

(* A positive float is m * 2^e, m a natural of exactly SignificandBits     *)
(* bits kept as the sequence of its bits, most significant first; 0.0 has  *)
(* its own flag.  The values converted here stay far from the ends of the  *)
(* exponent range, so e is not bounded.                                    *)
SignificandBits == 53

(* the bits of a natural, most significant first *)
NatBits(n) ==
    IF n = 0 THEN << >>
    ELSE LET len == CHOOSE l \in 1..30 : n \div 2^(l - 1) = 1
         IN  [k \in 1..len |-> (n \div 2^(len - k)) % 2]

(* the number the eight bits bits[i..i+7] spell *)
ByteOf(bits, i) ==
    128 * bits[i] + 64 * bits[i + 1] + 32 * bits[i + 2] + 16 * bits[i + 3]
        + 8 * bits[i + 4] + 4 * bits[i + 5] + 2 * bits[i + 6] + bits[i + 7]

(* the eight low bits of v *)
ByteBits(v) == [k \in 1..8 |-> (v \div 2^(8 - k)) % 2]

(* the bits of bits[1..i] * c + carry, taken eight bits at a time from the *)
(* low end and bit by bit when fewer than eight are left                   *)
RECURSIVE BitsTimes(_, _, _, _)
BitsTimes(bits, i, c, carry) ==
    IF i = 0 THEN NatBits(carry)
    ELSE IF i < 8
    THEN Append(BitsTimes(bits, i - 1, c, (bits[i] * c + carry) \div 2),
                (bits[i] * c + carry) % 2)
    ELSE LET v == ByteOf(bits, i - 7) * c + carry
         IN  BitsTimes(bits, i - 8, c, v \div 256) \o ByteBits(v % 256)

(* long division by c of the bits from position i on, rem and q being the  *)
(* remainder and the quotient bits of the positions before i; eight bits   *)
(* at a time, and bit by bit when fewer than eight are left                *)
RECURSIVE BitsDividedBy(_, _, _, _, _)
BitsDividedBy(bits, i, c, rem, q) ==
    IF i > Len(bits) THEN [q |-> q, rem |-> rem]
    ELSE IF i + 7 > Len(bits)
    THEN IF 2 * rem + bits[i] >= c
         THEN BitsDividedBy(bits, i + 1, c, 2 * rem + bits[i] - c, Append(q, 1))
         ELSE BitsDividedBy(bits, i + 1, c, 2 * rem + bits[i], Append(q, 0))
    ELSE LET v == 256 * rem + ByteOf(bits, i)
         IN  BitsDividedBy(bits, i + 8, c, v % c, q \o ByteBits(v \div c))

(* the float nearest to bits * 2^e, plus a non-zero part below the last    *)
(* bit when sticky; a tie goes to the even significand                     *)
RoundToDouble(bits, sticky, e) ==
    LET lead == Min({i \in 1..Len(bits) : bits[i] = 1})
        n == Len(bits) - lead + 1
        kept == [k \in 1..SignificandBits |-> IF k <= n THEN bits[lead + k - 1] ELSE 0]
        zeros == {k \in 1..SignificandBits : kept[k] = 0}
        last == CHOOSE k \in zeros : \A j \in zeros : j <= k
        up == /\ n > SignificandBits
              /\ bits[lead + SignificandBits] = 1
              /\ \/ sticky
                 \/ \E k \in lead + SignificandBits + 1 .. Len(bits) : bits[k] = 1
                 \/ kept[SignificandBits] = 1
    IN  IF ~up
        THEN [zero |-> FALSE, m |-> kept, e |-> e + n - SignificandBits]
        ELSE IF zeros = {}
        THEN [zero |-> FALSE, m |-> [k \in 1..SignificandBits |-> IF k = 1 THEN 1 ELSE 0],
              e |-> e + n - SignificandBits + 1]
        ELSE [zero |-> FALSE,
              m |-> [k \in 1..SignificandBits |->
                        IF k < last THEN kept[k] ELSE IF k = last THEN 1 ELSE 0],
              e |-> e + n - SignificandBits]

(* float(n) of a natural n *)
Double(n) ==
    IF n = 0 THEN [zero |-> TRUE, m |-> << >>, e |-> 0]
    ELSE RoundToDouble(NatBits(n), FALSE, 0)

(* x * c for a float x and a positive int c: the exact product, rounded *)
DoubleTimes(x, c) ==
    IF x.zero THEN x ELSE RoundToDouble(BitsTimes(x.m, Len(x.m), c, 0), FALSE, x.e)

(* x / c for a float x and a positive int c: the exact quotient, rounded;  *)
(* the dividend is extended by enough zero bits for the quotient to carry  *)
(* a rounding bit                                                          *)
DoubleDividedBy(x, c) ==
    IF x.zero THEN x
    ELSE LET extra == Len(NatBits(c)) + 2
         IN  CHOOSE r \in { RoundToDouble(d.q, d.rem # 0, x.e - extra) :
                              d \in {BitsDividedBy(x.m \o [k \in 1..extra |-> 0],
                                                   1, c, 0, << >>)} } : TRUE

(* watts_to_unit on floats; "ValueError" stands for the exception raised *)
watts_to_unit_double(watts, target_unit) ==
    CASE target_unit = "W" -> watts
      [] target_unit = "kW" -> DoubleDividedBy(watts, WATTS_PER_KILOWATT)
      [] target_unit = "kWh/day" ->
           DoubleDividedBy(DoubleTimes(watts, HOURS_PER_DAY), WATTS_PER_KILOWATT)
      [] target_unit = "kWh/month" ->
           DoubleDividedBy(DoubleTimes(watts, HOURS_PER_MONTH), WATTS_PER_KILOWATT)
      [] target_unit = "kWh/year" ->
           DoubleDividedBy(DoubleTimes(watts, HOURS_PER_YEAR), WATTS_PER_KILOWATT)
      [] OTHER -> "ValueError"

(* a conversion back that takes a month for a day *)
unit_to_watts_month_as_day(value, source_unit) ==
    CASE source_unit = "W" -> value
      [] source_unit = "kW" -> DoubleTimes(value, WATTS_PER_KILOWATT)
      [] source_unit \in {"kWh/day", "kWh/month"} ->
           DoubleDividedBy(DoubleTimes(value, WATTS_PER_KILOWATT), HOURS_PER_DAY)
      [] source_unit = "kWh/year" ->
           DoubleDividedBy(DoubleTimes(value, WATTS_PER_KILOWATT), HOURS_PER_YEAR)
      [] OTHER -> "ValueError"

unit_to_watts(value, source_unit) ==
    CASE source_unit = "W" -> value
      [] source_unit = "kW" -> DoubleTimes(value, WATTS_PER_KILOWATT)
      [] source_unit = "kWh/day" ->
           DoubleDividedBy(DoubleTimes(value, WATTS_PER_KILOWATT), HOURS_PER_DAY)
      [] source_unit = "kWh/month" ->
           DoubleDividedBy(DoubleTimes(value, WATTS_PER_KILOWATT), HOURS_PER_MONTH)
      [] source_unit = "kWh/year" ->
           DoubleDividedBy(DoubleTimes(value, WATTS_PER_KILOWATT), HOURS_PER_YEAR)
      [] OTHER -> "ValueError"

----------------------------------------------------------------------------
(* Specification of the unit converter on its own *)

(* watts are drawn in tenths of a watt *)
MaxDeciWatts == 700

(* the module's example run: a value converted to a unit and back *)
RoundTrip ==
    /\ resp.op = "startup"
    /\ \E n \in 0..MaxDeciWatts, u \in SupportedUnits :
         \E watts \in {DoubleDividedBy(Double(n), 10)} :
           \E converted \in {watts_to_unit_double(watts, u)} :
             resp' = [op |-> "unit_round_trip", deciwatts |-> n, watts |-> watts,
                      unit |-> u, converted |-> converted,
                      back |-> unit_to_watts(converted, u)]
    /\ UNCHANGED <<storeVars, liveVars, batch>>

SpecUnits ==
    InitStore(<<default_simulation>>, << >>, SeededAlgorithms) /\ [][RoundTrip]_vars

(* C21 as stated: converting a non-negative value to a supported unit and  *)
(* back gives the value again.                                             *)
C21_RoundTripIsExact ==
    resp.op = "unit_round_trip" => resp.back = resp.watts

(* C21: converting a non-negative value to a supported unit and back gives *)
(* the value again for W, and for the other units a float at most four     *)
(* floats away from it.                                                    *)
C21_RoundTripWithinTolerance ==
    LET Up(x) ==
            LET zeros == {k \in 1..SignificandBits : x.m[k] = 0}
                last == CHOOSE k \in zeros : \A j \in zeros : j <= k
            IN  IF zeros = {}
                THEN [x EXCEPT !.m = [k \in 1..SignificandBits |-> IF k = 1 THEN 1 ELSE 0],
                               !.e = x.e + 1]
                ELSE [x EXCEPT !.m = [k \in 1..SignificandBits |->
                                        IF k < last THEN x.m[k]
                                        ELSE IF k = last THEN 1 ELSE 0]]
        Down(x) ==
            LET ones == {k \in 1..SignificandBits : x.m[k] = 1}
                last == CHOOSE k \in ones : \A j \in ones : j <= k
            IN  IF last = 1
                THEN [x EXCEPT !.m = [k \in 1..SignificandBits |-> 1], !.e = x.e - 1]
                ELSE [x EXCEPT !.m = [k \in 1..SignificandBits |->
                                        IF k < last THEN x.m[k]
                                        ELSE IF k = last THEN 0 ELSE 1]]
        RECURSIVE UpBy(_, _)
        UpBy(x, steps) ==
            IF steps = 0 THEN x
            ELSE CHOOSE r \in { Up(y) : y \in {UpBy(x, steps - 1)} } : TRUE
        RECURSIVE DownBy(_, _)
        DownBy(x, steps) ==
            IF steps = 0 THEN x
            ELSE CHOOSE r \in { Down(y) : y \in {DownBy(x, steps - 1)} } : TRUE
    IN  resp.op = "unit_round_trip" =>
          /\ resp.unit = "W" => resp.back = resp.watts
          /\ resp.watts.zero => resp.back = resp.watts
          /\ ~resp.watts.zero =>
                \E steps \in 0..4 :
                    resp.back \in {UpBy(resp.watts, steps), DownBy(resp.watts, steps)}

(* a value that comes back from kWh/year as another float (14.7 W) *)
C21_Witness ==
    /\ resp.op = "unit_round_trip"
    /\ resp.unit = "kWh/year"
    /\ resp.back # resp.watts
    /\ ~resp.converted.zero

----------------------------------------------------------------------------
(* Specification of script validation on its own *)

(* AlgorithmCreate.validate_script on the script of a request body *)
ValidateScript ==
    /\ \E args \in { RequiredArgs, SubSeq(RequiredArgs, 1, 5),
                     Append(RequiredArgs, "more"), Append(RequiredArgs, "*args"),
                     Append(SubSeq(RequiredArgs, 1, 5), "*args"), tv_script.args },
          body \in { "sum", "nan", "str", "raise", "nan_live", "str_live",
                     "raise_live", "cyclic", "active", "clock" },
          compiles \in BOOLEAN :
          \E script \in { Script("submitted", TRUE, compiles, TRUE, args, body) } :
             resp' = [op |-> "validate_script", script |-> script,
                      verdict |-> validate_algorithm_script(script)]
    /\ UNCHANGED <<storeVars, liveVars, batch>>

SpecValidate ==
    InitStore(<<default_simulation>>, << >>, SeededAlgorithms) /\ [][ValidateScript]_vars

----------------------------------------------------------------------------
(* The publisher handlers and the loop task (checked on SpecLive) *)

(* C23: a start_publisher request issued while a loop task is running      *)
(* creates no second task (the task and its position are left as they      *)
(* are) and answers "Publisher already running", whatever starts and stops *)
(* came before.                                                            *)
C23_NoSecondLoopTask ==
    [][(StartPublisher /\ publish_task \in {"ready", "sleep"})
           => /\ publish_task' = publish_task
              /\ session_cache' = session_cache
              /\ resp'.status = "Publisher already running"]_vars

(* a start has been answered "Publisher already running" while the loop   *)
(* that has published a sample is in its sleep                             *)
C23_Witness ==
    /\ resp.op = "start_publisher"
    /\ resp.status = "Publisher already running"
    /\ publish_task = "sleep"
    /\ sink.subject = "consumption"

(* C24: a stop_publisher request on a running loop leaves no loop task     *)
(* running, and while none is running no step hands a consumption sample   *)
(* to the sink (the next one follows a later start_publisher); a stop      *)
(* request issued while no loop is running changes nothing and answers     *)
(* "Publisher not running".                                                *)
C24_StoppedLoopPublishesNothing ==
    [][/\ (StopPublisher /\ publish_task \in {"ready", "sleep"})
              => publish_task' \notin {"ready", "sleep"}
       /\ publish_task \notin {"ready", "sleep"}
              => (sink' = sink \/ sink'.subject = "status")
       /\ (StopPublisher /\ publish_task \notin {"ready", "sleep"})
              => /\ UNCHANGED <<storeVars, liveVars, batch>>
                 /\ resp'.status = "Publisher not running"]_vars

(* a loop that had run a tick has been stopped and the sink told so *)
C24_Witness ==
    /\ resp.op = "stop_publisher"
    /\ resp.status = "Publisher stopped"
    /\ publish_task = "cancelled"
    /\ sink = StatusMessage("stopped")
    /\ session_cache[1] # << >>

----------------------------------------------------------------------------
(* Specification of one tick of the live loop, statement by statement,     *)
(* next to the handlers the event loop can run                             *)

(* an event loop that could leave the tick at any of its awaits *)
loop_suspended_at_any_await(task) == TRUE

(* The event loop runs another handler only when the coroutine it is       *)
(* running awaits something unfinished.  Every await inside the try block  *)
(* of publish_messages is on a coroutine that never suspends, so the loop  *)
(* task gives way only in asyncio.sleep.                                   *)
loop_suspended(task) == task # "in_tick"

(* the first statement of a tick: the active simulation is read *)
TickBegin ==
    /\ batch.pc = "idle"
    /\ publish_task = "ready"
    /\ publish_task' = "in_tick"
    /\ resp' = [op |-> "tick_begin",
                current_simulation |-> get_current_simulation(session_cache, simulations)]
    /\ session_cache' = loaded_after(session_cache, simulations)
    /\ UNCHANGED <<storeVars, now, mqtt_connected, sink, batch>>

(* the rest of the tick, which reads the active simulation again (for the  *)
(* devices, for the meter and inside calculate_consumption), up to the     *)
(* publish or the logged failure and the sleep                             *)
TickEnd ==
    /\ publish_task = "in_tick"
    /\ \E r \in {tick_result(session_cache, simulations, meters, devices,
                             algorithms, mqtt_connected, now, now)} :
        /\ sink' = IF r.status = "published" THEN r.data ELSE sink
        /\ publish_task' =
               IF r.status = "published" \/ caught_by_loop(r.exc)
               THEN "sleep" ELSE "dead"
        /\ resp' = [op |-> "tick", status |-> r.status, exc |-> r.exc,
                    first_read |-> resp.current_simulation,
                    later_read |-> get_current_simulation(session_cache, simulations)]
    /\ session_cache' = loaded_after(session_cache, simulations)
    /\ UNCHANGED <<storeVars, now, mqtt_connected, batch>>

SpecTick ==
    /\ InitLive
    /\ [][TickBegin
          \/ TickEnd
          \/ SleepDone
          \/ (loop_suspended(publish_task) /\ StartPublisher)
          \/ (loop_suspended(publish_task) /\ StopPublisher)
          \/ (loop_suspended(publish_task) /\ FreshCreateSimulation)
          \/ (loop_suspended(publish_task) /\ FreshUpdateSimulation)]_vars

(* C25: once a tick has read the configuration, the next step of the       *)
(* system is the rest of that tick, up to its publish or its logged        *)
(* failure: no handler writes the store and none cancels the loop in       *)
(* between, and the later reads of the active simulation in the tick see   *)
(* the record the first read saw.                                          *)
C25_TickRunsThrough ==
    [][publish_task = "in_tick"
          => /\ publish_task' = "sleep"
             /\ UNCHANGED storeVars
             /\ resp'.op = "tick"
             /\ resp'.first_read = resp'.later_read]_vars

(* a tick has run through after the configuration was updated and has      *)
(* published what the update set                                           *)
C25_Witness ==
    /\ resp.op = "tick"
    /\ resp.status = "published"
    /\ resp.first_read = resp.later_read
    /\ resp.first_read.row.output_unit = "kW"
    /\ sink.data.unit = "kW"

----------------------------------------------------------------------------
(* Resetting the active simulation to real time (checked on SpecSim) *)

(* C26: an update of the active simulation with time_unit = seconds,       *)
(* time_speed = 1.0 and simulation_start_time = null leaves the simulation *)
(* without an anchor, so that the simulation time computed afterwards is   *)
(* the wall clock, also when an anchor had been set before.                *)
C26_ResetClearsAnchor ==
    [][\A id \in ActiveIds(simulations) :
          update_simulation_service(id,
              [values |-> [time_unit |-> "seconds", time_speed |-> SpeedDen],
               nulls |-> {"simulation_start_time"}])
              => /\ simulations'[id].simulation_start_time = None
                 /\ \A real_time \in 0..MaxNow :
                       calculate_simulation_time(simulations'[id], real_time)
                           = real_time]_vars

----------------------------------------------------------------------------
(* Specification of batch calls that name the simulation and list devices: *)
(* the store holds the default simulation, whose meter has two devices, and *)
(* a request names that simulation or one that does not exist and lists no  *)
(* device, one device or both                                               *)

SpecListed ==
    /\ InitStore(<<default_simulation>>,
                 <<Device(1, AlgorithmIdOf("cyclic_script"), 10, 20, 2, 1),
                   Device(1, AlgorithmIdOf("user_sum"), 3, 4, 2, 1)>>,
                 SeededAlgorithms)
    /\ [][BatchStart([simulation_id : {1, MaxSimulations + 1},
                      use_current_simulation : {TRUE},
                      start_time : {0, TimeDen},
                      end_time : {0, MaxTime * TimeDen},
                      sample_interval_seconds : {1, 2},
                      overrides : {<< >>},
                      device_ids : {<<>>, <<1>>, <<2>>, <<1, 2>>}], FALSE)
          \/ BatchStep]_vars

(* C27: a generate_simulation_data call whose simulation_id resolves to no *)
(* simulation ends at once in one ValueError for the whole request: the    *)
(* sampling loop is never entered, so no device algorithm is evaluated and *)
(* the answer carries no sample.                                           *)
C27_UnknownSimulationIsOneError ==
    [][(/\ batch.pc = "idle"
        /\ resp' # resp
        /\ resp'.request.simulation_id \notin 1..Len(simulations))
           => /\ resp' = BatchError(resp'.request, "ValueError", "simulation")
              /\ batch' = IdleBatch]_vars

(* a request for a simulation that does not exist, listing both devices of *)
(* the store, has been refused                                             *)
C27_Witness ==
    /\ resp.op = "generate_simulation_data"
    /\ resp.status = "error"
    /\ resp.stage = "simulation"
    /\ resp.request.simulation_id = MaxSimulations + 1
    /\ resp.request.device_ids = <<1, 2>>
    /\ batch = IdleBatch

----------------------------------------------------------------------------
(* The stored status and the loop task (checked on SpecLive)               *)

(* C28: as long as start_publisher and stop_publisher have only been       *)
(* called for the one simulation of the store, its stored CurrentStatus is *)
(* "running" exactly when the loop task is running and "stopped" or absent *)
(* exactly when it is not, also after calls in which handing the status    *)
(* message to the broker failed.                                           *)
C28_StatusTracksTask ==
    Len(simulations) = 1
        => /\ statuses[1] = "running" <=> task_running
           /\ statuses[1] \in {"stopped", "None"} <=> ~task_running

----------------------------------------------------------------------------
(* The timestamp of a published sample (checked on SpecLive)               *)

(* C30: the timestamp of the sample a tick of the live loop has published  *)
(* equals the simulation time that tick passed as current_time to the      *)
(* device algorithms.                                                      *)
C30_TimestampIsAlgorithmTime ==
    (resp.op = "tick" /\ resp.status = "published")
        => sink.data.timestamp = resp.current_time

----------------------------------------------------------------------------
(* The devices a request lists (checked on SpecListed)                     *)

(* C29: in every sample of a response to a request that lists device_ids,  *)
(* each listed device of the simulation's meter appears exactly once in    *)
(* the device breakdown, and the total is the meter's base consumption     *)
(* plus the consumption of each listed device counted once, however many   *)
(* ids the list holds.                                                     *)
C29_ListedDeviceEvaluatedOnce ==
    (Completed(resp) /\ resp.request.device_ids # <<>>)
        => LET request == resp.request
               electric_meter == get_electric_meter(meters, request.simulation_id)
               listed == selected_devices(get_device_simulations(devices, electric_meter),
                                          request.device_ids)
               cfg == batch_config(request, simulations[request.simulation_id])
           IN  \A k \in 1..Len(resp.data_points) :
                  LET point == resp.data_points[k]
                      once == device_points(listed, devices, algorithms,
                                            point.simulation_time,
                                            ExtraParams(cfg.time_unit, cfg.time_speed))
                  IN  /\ \A i \in 1..Len(listed) :
                            Cardinality({j \in 1..Len(point.devices) :
                                            point.devices[j].device_id = listed[i]}) = 1
                      /\ point.total_consumption
                            = watts_to_unit(
                                  PyAdd(total_of(once),
                                        Num(meters[electric_meter].base_consumption)),
                                  cfg.output_unit)

====
